---- MODULE Spec2Model ----
(***************************************************************************)
(* Model of the peerstore client (package main: the backup, getfile and    *)
(* share commands and the sync process) and of the server-side envelope   *)
(* handlers (package file).                                                *)
(*                                                                         *)
(* Stored blobs, identifiers, wrapped session keys and ciphertexts are     *)
(* byte sequences with the lengths the code uses (20-byte identifiers,     *)
(* 256-byte wrapped keys, 16-byte IVs), so that the envelope parser of the *)
(* handlers is modelled as it reads the bytes.                             *)
(***************************************************************************)
EXTENDS Integers, Sequences, FiniteSets, TLC

(***************************************************************************)
(* Program constants                                                       *)
(***************************************************************************)
IDLen == 20
sessionKeyLen == 256
BlockSize == 16

(***************************************************************************)
(* Bounds of the model                                                     *)
(***************************************************************************)
\* the server clock value at which the server specification stops taking
\* requests that advance the clock
MaxSrvClock == 3
\* the server clock value at which the command-line specification stops
\* running commands that post
MaxCliClock == 3
\* length of the long payload (at least one wrapped-key length)
LongLen == 258

(***************************************************************************)
(* Bytes, users, identifiers                                               *)
(***************************************************************************)
Users == {"A", "B", "C"}
UserByte(u) == CASE u = "A" -> 1 [] u = "B" -> 2 [] OTHER -> 3

Byte(x) == x % 256

\* models.Identifier(sha1.Sum(gob(pub))): one 20-byte value per user,
\* different users have different identifiers
UserID(u) == [i \in 1..IDLen |-> UserByte(u)]

\* fileToKeyIdentifier(filename) = sha1(filename): one 20-byte value per path,
\* different from every user id
Paths == {"x.txt", "y.txt"}
PathByte(p) == IF p = "x.txt" THEN 101 ELSE 102
fileToKeyIdentifier(p) == [i \in 1..IDLen |-> PathByte(p)]

\* evaluate v once and apply F to the value
Let(v, F(_)) == CHOOSE r \in {F(x) : x \in {v}} : TRUE

Max(a, b) == IF a >= b THEN a ELSE b
Min(a, b) == IF a <= b THEN a ELSE b

\* buf.Read(p) with len(p) = n at offset pos: the bytes actually read
ReadAt(blob, pos, n) == SubSeq(blob, pos, Min(Len(blob), pos + n - 1))

(***************************************************************************)
(* Crypto envelope (package crypto).  A session key is 32 equal bytes; its *)
(* wrapped form is 256 bytes that only the private key of the recipient    *)
(* opens.  AES in a streaming mode keeps the length of the plaintext.      *)
(***************************************************************************)
SessionKeyBytes == 32
RSATag == 77

SessionKey(s) == [i \in 1..SessionKeyBytes |-> s]

\* crypto.EncryptRSA(pub(u), sKey): 256 bytes
EncryptRSA(u, sKey) ==
    <<RSATag, UserByte(u)>> \o sKey
      \o [i \in 1..(sessionKeyLen - 2 - Len(sKey)) |-> 0]

\* crypto.DecryptRSA(priv(u), c): fails on anything not wrapped for u
DecryptRSA(u, c) ==
    IF Len(c) = sessionKeyLen /\ c[1] = RSATag /\ c[2] = UserByte(u)
      THEN [ok |-> TRUE, key |-> SubSeq(c, 3, 2 + SessionKeyBytes)]
      ELSE [ok |-> FALSE, key |-> <<>>]

IV(v) == [i \in 1..BlockSize |-> v]

\* crypto.EncryptWithIV(key, plaintext, iv): the ciphertext without the IV
EncryptWithIV(sKey, plaintext, iv) ==
    [i \in 1..Len(plaintext) |-> Byte(plaintext[i] + sKey[1] + iv[1] + i)]

\* crypto.Decrypt(key, ciphertext, iv)
Decrypt(sKey, ciphertext, iv) ==
    [i \in 1..Len(ciphertext) |-> Byte(ciphertext[i] + 2 * 256 - sKey[1] - iv[1] - Byte(i))]

(***************************************************************************)
(* Requests and responses (protocol.Request / protocol.Response)           *)
(***************************************************************************)
ErrorResponse == [status |-> "Error", secret |-> <<>>, data |-> <<>>, clock |-> 0]

Request(method, key, from, secret, sharedWith, data, clock) ==
    [method |-> method, key |-> key, from |-> from, secret |-> secret,
     sharedWith |-> sharedWith, data |-> data, clock |-> clock]

NoRequest == Request("None", <<>>, <<>>, <<>>, <<>>, <<>>, 0)

(***************************************************************************)
(* A server node: its blob store and its process-wide Lamport clock        *)
(***************************************************************************)
EmptyStore == [k \in {} |-> <<>>]
EmptyNode == [store |-> EmptyStore, clock |-> 0]

\* file.Post: atomic full replace of the blob at key
Post(store, key, bytes) ==
    [k \in DOMAIN store \cup {key} |-> IF k = key THEN bytes ELSE store[k]]

\* file.Delete: remove the blob at key
Delete(store, key) == [k \in DOMAIN store \ {key} |-> store[k]]

\* a clock that takes the larger value and does not step
ObserveClock(clock, peer) == Max(clock, peer)

\* models.IncrementClock(peer): clock := max(clock, peer) + 1
IncrementClock(clock, peer) == Max(clock, peer) + 1

(***************************************************************************)
(* The envelope parser shared by the three file handlers:                  *)
(* read the owner count byte, then that many {id:20, secret:256} records.  *)
(* A short read of any field is an error.                                  *)
(***************************************************************************)
\* the loop that reads left records from position pos: it reads the
\* records that are there in full, one after the other, and stops with an
\* error at the first id or secret that comes short
ReadOwners(blob, pos, left, acc) ==
    Let(Min(left, Max(0, Len(blob) - pos + 1) \div (IDLen + sessionKeyLen)),
        LAMBDA full :
      [ok |-> full = left,
       idSecrets |-> acc \o
           [i \in 1..full |->
              [ID |-> ReadAt(blob, pos + (i - 1) * (IDLen + sessionKeyLen), IDLen),
               Secret |-> ReadAt(blob, pos + (i - 1) * (IDLen + sessionKeyLen) + IDLen,
                                 sessionKeyLen)]],
       pos |-> pos + full * (IDLen + sessionKeyLen)])

\* the parser with the short reads of the records not looked at
ParseEnvelopeLenient(blob) ==
    IF Len(blob) < 1 THEN [ok |-> FALSE, idSecrets |-> <<>>, pos |-> 1]
    ELSE [ReadOwners(blob, 2, blob[1], <<>>) EXCEPT !.ok = TRUE]

ParseEnvelope(blob) ==
    IF Len(blob) < 1 THEN [ok |-> FALSE, idSecrets |-> <<>>, pos |-> 1]
    ELSE ReadOwners(blob, 2, blob[1], <<>>)

\* the ownership loop: every record is compared, a later match overwrites
\* the secret of an earlier one
FindOwnerFrom(idSecrets, from, i, acc) ==
    Let({j \in i..Len(idSecrets) : idSecrets[j].ID = from}, LAMBDA matches :
      IF matches = {} THEN acc
      ELSE [found |-> TRUE,
            secret |-> idSecrets[CHOOSE j \in matches :
                                   \A m \in matches : m <= j].Secret])

\* the ownership loop with a flag that starts out true
FindOwnerAlways(idSecrets, from) ==
    [found |-> TRUE,
     secret |-> IF Len(idSecrets) > 0 THEN idSecrets[1].Secret ELSE <<>>]

FindOwner(idSecrets, from) ==
    FindOwnerFrom(idSecrets, from, 1, [found |-> FALSE, secret |-> <<>>])

\* header bytes of an owner table
RECURSIVE OwnerBytes(_)
OwnerBytes(pairs) ==
    IF pairs = <<>> THEN <<>>
    ELSE IF Len(pairs) = 1 THEN pairs[1].ID \o pairs[1].Secret
    ELSE OwnerBytes(SubSeq(pairs, 1, Len(pairs) \div 2))
           \o OwnerBytes(SubSeq(pairs, Len(pairs) \div 2 + 1, Len(pairs)))

(***************************************************************************)
(* Handlers.  Each takes the node state and the request and gives the new  *)
(* node state and the response.                                            *)
(***************************************************************************)
\* GetFileHandler without the ownership check
GetFileHandlerNoCheck(nd, r) ==
    IF r.key \notin DOMAIN nd.store THEN [node |-> nd, resp |-> ErrorResponse]
    ELSE Let(ParseEnvelope(nd.store[r.key]), LAMBDA p :
         Let(FindOwner(p.idSecrets, r.from), LAMBDA o :
           IF ~p.ok THEN [node |-> nd, resp |-> ErrorResponse]
           ELSE [node |-> nd,
                 resp |-> [status |-> "Success", secret |-> o.secret,
                           data |-> SubSeq(nd.store[r.key], p.pos, Len(nd.store[r.key])),
                           clock |-> 0]]))

GetFileHandler(nd, r) ==
    IF r.key \notin DOMAIN nd.store THEN [node |-> nd, resp |-> ErrorResponse]
    ELSE Let(ParseEnvelope(nd.store[r.key]), LAMBDA p :
         Let(FindOwner(p.idSecrets, r.from), LAMBDA o :
           IF ~p.ok THEN [node |-> nd, resp |-> ErrorResponse]
           ELSE IF ~o.found THEN [node |-> nd, resp |-> ErrorResponse]
           ELSE [node |-> nd,
                 resp |-> [status |-> "Success", secret |-> o.secret,
                           data |-> SubSeq(nd.store[r.key], p.pos, Len(nd.store[r.key])),
                           clock |-> 0]]))

PostFileHandler(nd, r) ==
    Let(IncrementClock(nd.clock, r.clock), LAMBDA timestamp :
      IF r.key \notin DOMAIN nd.store
        THEN [node |-> [store |-> Post(nd.store, r.key,
                                       <<Byte(1 + Len(r.sharedWith))>> \o r.from
                                         \o r.secret \o OwnerBytes(r.sharedWith)
                                         \o r.data),
                        clock |-> timestamp],
              resp |-> [status |-> "Success", secret |-> <<>>, data |-> <<>>,
                        clock |-> timestamp]]
      ELSE Let(ParseEnvelope(nd.store[r.key]), LAMBDA p :
           Let(FindOwner(p.idSecrets, r.from), LAMBDA o :
             IF ~p.ok
               THEN [node |-> [nd EXCEPT !.clock = timestamp], resp |-> ErrorResponse]
             ELSE IF ~o.found
               THEN [node |-> [nd EXCEPT !.clock = timestamp], resp |-> ErrorResponse]
             ELSE [node |-> [store |-> Post(nd.store, r.key,
                                            <<Byte(Len(p.idSecrets) + Len(r.sharedWith))>>
                                              \o OwnerBytes(p.idSecrets)
                                              \o OwnerBytes(r.sharedWith)
                                              \o r.data),
                             clock |-> timestamp],
                   resp |-> [status |-> "Success", secret |-> o.secret,
                             data |-> <<>>, clock |-> timestamp]])))

DeleteFileHandler(nd, r) ==
    IF r.key \notin DOMAIN nd.store THEN [node |-> nd, resp |-> ErrorResponse]
    ELSE Let(ParseEnvelope(nd.store[r.key]), LAMBDA p :
         Let(FindOwner(p.idSecrets, r.from), LAMBDA o :
         Let(IncrementClock(nd.clock, r.clock), LAMBDA timestamp :
           IF ~p.ok THEN [node |-> nd, resp |-> ErrorResponse]
           ELSE IF ~o.found
             THEN [node |-> [nd EXCEPT !.clock = timestamp], resp |-> ErrorResponse]
           ELSE [node |-> [store |-> Delete(nd.store, r.key), clock |-> timestamp],
                 resp |-> [status |-> "Success", secret |-> o.secret,
                           data |-> <<>>, clock |-> timestamp]])))

GetPublicKeyHandler(nd, r) ==
    Let(IncrementClock(nd.clock, r.clock), LAMBDA timestamp :
      IF r.key \notin DOMAIN nd.store
        THEN [node |-> [nd EXCEPT !.clock = timestamp], resp |-> ErrorResponse]
        ELSE [node |-> [nd EXCEPT !.clock = timestamp],
              resp |-> [status |-> "Success", secret |-> <<>>,
                        data |-> nd.store[r.key], clock |-> timestamp]])

PostPublicKeyHandler(nd, r) ==
    Let(IncrementClock(nd.clock, r.clock), LAMBDA timestamp :
      [node |-> [store |-> Post(nd.store, r.key, r.data), clock |-> timestamp],
       resp |-> [status |-> "Success", secret |-> <<>>, data |-> <<>>,
                 clock |-> timestamp]])

\* the server's dispatch on the request method
Handle(nd, r) ==
    CASE r.method = "GetFile" -> GetFileHandler(nd, r)
      [] r.method = "PostFile" -> PostFileHandler(nd, r)
      [] r.method = "DeleteFile" -> DeleteFileHandler(nd, r)
      [] r.method = "GetPublicKey" -> GetPublicKeyHandler(nd, r)
      [] r.method = "PostPublicKey" -> PostPublicKeyHandler(nd, r)
      [] OTHER -> [node |-> nd, resp |-> ErrorResponse]

(***************************************************************************)
(* Transaction log (package models) and its serialized form.               *)
(* A log maps a path to an entity {ResourceName, ResourceID, Entries}; an  *)
(* entry is {Operation, ClientID, Timestamp}.  The gob stream of a log is  *)
(* the type descriptors of the log types followed by the entities.         *)
(***************************************************************************)
EmptyLog == [p \in {} |-> <<>>]

TransactionEntry(op, u, timestamp) ==
    [Operation |-> op, ClientID |-> UserID(u), Timestamp |-> timestamp]

\* txlog_id(user) = sha1(gob(pub) || "-transaction-log")
TxLogID(u) == [i \in 1..IDLen |-> 200 + UserByte(u)]

\* bytes of the type descriptors gob sends ahead of the first value
GobPreambleLen == 251
GobPreamble == [i \in 1..GobPreambleLen |-> 250]

OpByte(op) == IF op = "Update" THEN 1 ELSE 2

RECURSIVE GobEntries(_)
GobEntries(entries) ==
    IF entries = <<>> THEN <<>>
    ELSE <<OpByte(entries[1].Operation)>> \o entries[1].ClientID
           \o <<Byte(entries[1].Timestamp)>> \o GobEntries(Tail(entries))

GobEntity(e) ==
    <<PathByte(e.ResourceName)>> \o e.ResourceID \o <<Len(e.Entries)>>
      \o GobEntries(e.Entries)

\* the paths of a set in lexical order
RECURSIVE SortedPaths(_)
SortedPaths(ps) ==
    IF ps = {} THEN <<>>
    ELSE LET m == CHOOSE x \in ps : \A y \in ps : PathByte(x) <= PathByte(y)
         IN  <<m>> \o SortedPaths(ps \ {m})

RECURSIVE GobEntities(_, _)
GobEntities(log, order) ==
    IF order = <<>> THEN <<>>
    ELSE GobEntity(log[order[1]]) \o GobEntities(log, Tail(order))

\* gob.NewEncoder(buf).Encode(&transactionLog)
GobEncodeLog(log) == GobPreamble \o GobEntities(log, SortedPaths(DOMAIN log))

EntryLen == 1 + IDLen + 1

RECURSIVE DecodeEntries(_, _, _, _)
DecodeEntries(bytes, pos, left, acc) ==
    IF left = 0 THEN [ok |-> TRUE, entries |-> acc, pos |-> pos]
    ELSE IF pos + EntryLen - 1 > Len(bytes) \/ bytes[pos] \notin {1, 2}
      THEN [ok |-> FALSE, entries |-> acc, pos |-> pos]
    ELSE DecodeEntries(bytes, pos + EntryLen, left - 1,
            Append(acc, [Operation |-> IF bytes[pos] = 1 THEN "Update" ELSE "Delete",
                         ClientID |-> SubSeq(bytes, pos + 1, pos + IDLen),
                         Timestamp |-> bytes[pos + IDLen + 1]]))

RECURSIVE DecodeEntities(_, _, _)
DecodeEntities(bytes, pos, acc) ==
    IF pos > Len(bytes) THEN [ok |-> TRUE, log |-> acc]
    ELSE IF \/ pos + IDLen + 1 > Len(bytes)
            \/ ~\E p \in Paths : PathByte(p) = bytes[pos]
      THEN [ok |-> FALSE, log |-> EmptyLog]
    ELSE Let(DecodeEntries(bytes, pos + IDLen + 2, bytes[pos + IDLen + 1], <<>>),
             LAMBDA d :
           IF ~d.ok THEN [ok |-> FALSE, log |-> EmptyLog]
           ELSE Let(CHOOSE p \in Paths : PathByte(p) = bytes[pos], LAMBDA name :
                  DecodeEntities(bytes, d.pos,
                     [q \in DOMAIN acc \cup {name} |->
                        IF q = name
                          THEN [ResourceName |-> name,
                                ResourceID |-> SubSeq(bytes, pos + 1, pos + IDLen),
                                Entries |-> d.entries]
                          ELSE acc[q]])))

\* gob.NewDecoder(data).Decode(&transactionLog): fails on a stream that
\* does not start with the type descriptors or is cut short
GobDecodeLog(bytes) ==
    IF Len(bytes) < GobPreambleLen \/ SubSeq(bytes, 1, GobPreambleLen) # GobPreamble
      THEN [ok |-> FALSE, log |-> EmptyLog]
      ELSE DecodeEntities(bytes, GobPreambleLen + 1, EmptyLog)

\* the entry with the largest timestamp, the latest in the list on ties
\* (the loop compares with >=)
\* the loop with > in place of >=: the earliest in the list on ties
RECURSIVE LastEntryEarliest(_, _, _)
LastEntryEarliest(entries, i, lastEntry) ==
    IF i > Len(entries) THEN lastEntry
    ELSE LastEntryEarliest(entries, i + 1,
            IF entries[i].Timestamp > lastEntry.Timestamp
              THEN entries[i] ELSE lastEntry)

RECURSIVE LastEntryFrom(_, _, _)
LastEntryFrom(entries, i, lastEntry) ==
    IF i > Len(entries) THEN lastEntry
    ELSE LastEntryFrom(entries, i + 1,
            IF entries[i].Timestamp >= lastEntry.Timestamp
              THEN entries[i] ELSE lastEntry)

LastEntry(entries) == LastEntryFrom(entries, 1, entries[1])

\* the log whose entity for path holds the one new entry
AppendEntryAlone(log, path, entry) ==
    [q \in DOMAIN log \cup {path} |->
        IF q = path
          THEN [ResourceName |-> path,
                ResourceID |-> fileToKeyIdentifier(path),
                Entries |-> <<entry>>]
          ELSE log[q]]

\* the log with the entry appended to an entity it holds, and an entity
\* without entries made for a path it lacks
AppendEntryIfHeld(log, path, entry) ==
    [q \in DOMAIN log \cup {path} |->
        IF q = path
          THEN IF path \in DOMAIN log
                 THEN [log[path] EXCEPT !.Entries = Append(log[path].Entries, entry)]
                 ELSE [ResourceName |-> path,
                       ResourceID |-> fileToKeyIdentifier(path),
                       Entries |-> <<>>]
          ELSE log[q]]

\* the log with one entry appended for path (the entity is made if absent)
AppendEntry(log, path, entry) ==
    [q \in DOMAIN log \cup {path} |->
        IF q = path
          THEN IF path \in DOMAIN log
                 THEN [log[path] EXCEPT !.Entries = Append(log[path].Entries, entry)]
                 ELSE [ResourceName |-> path,
                       ResourceID |-> fileToKeyIdentifier(path),
                       Entries |-> <<entry>>]
          ELSE log[q]]

(***************************************************************************)
(* State                                                                   *)
(***************************************************************************)
Nodes == {"n1", "n2"}
\* the peer the client is started with (peerAddr)
Bootstrap == "n1"

VARIABLES
    nodes,      \* node -> [store, clock]
    succ,       \* the ring: key -> node responsible for it (GetSuccessor)
    lastNode,   \* history: the node that served the last request
    lastReq,    \* history: the last request a handler served
    lastResp,   \* history: its response
    prevNodes,  \* history: nodes before that request
    lastOp,     \* history: the last client command that ran
    prevOp,     \* history: the command before it
    written,    \* history: path -> plaintext of the last accepted write
    cl,         \* sync client -> state of that client process
    srv         \* the handler goroutines of the bootstrap server and fileMu

srvVars == <<nodes, lastNode, lastReq, lastResp, prevNodes>>
cliVars == <<succ, lastOp, prevOp, written>>
vars == <<srvVars, cliVars, cl, srv>>

\* the goroutines that serve connections
Threads == {"t1", "t2"}

\* a server with no request in progress: fileMu is free; start is the node
\* state the goroutines started from and overlap tells whether two requests
\* were in the server at once (both history)
SrvIdle ==
    [mu |-> "none",
     th |-> [t \in Threads |->
               [pc |-> "idle", req |-> NoRequest, present |-> FALSE,
                blob |-> <<>>, resp |-> ErrorResponse]],
     start |-> EmptyNode, overlap |-> FALSE]

Clients == {"c1", "c2"}
EmptyDir == [p \in {} |-> <<>>]

\* a sync client process that is not running.  The fields after edits are
\* history: they record what the process did and steer nothing.
ClientOff ==
    [pc |-> "off", user |-> "A", files |-> EmptyDir, clock |-> 0,
     prior |-> EmptyLog, tl |-> EmptyLog, push |-> <<>>, rec |-> {},
     inSync |-> FALSE, opPath |-> "", opNode |-> Bootstrap,
     opStatus |-> "none", opLog |-> EmptyLog,
     opFetched |-> EmptyLog, opFetchOK |-> FALSE, stamp |-> -1,
     sig |-> "new", intr |-> FALSE, exit |-> -1, watching |-> FALSE, events |-> <<>>,
     roundsLeft |-> 0, edits |-> 0,
     rounds |-> 0, priorOK |-> FALSE, fetchOK |-> FALSE,
     issued |-> {}, got |-> {}, failed |-> {}, posts |-> 0, posted |-> 0,
     postedData |-> <<>>, edited |-> FALSE, afterBoth |-> FALSE,
     further |-> FALSE, endFiles |-> EmptyDir, endBlob |-> <<>>,
     localSame |-> FALSE, remoteSame |-> FALSE]

NoOp == [op |-> "none"]
NoPlain == <<-1>>

\* a client process that has not run any command
InitCli ==
    /\ cl = [c \in Clients |-> ClientOff]
    /\ srv = SrvIdle
    /\ lastOp = NoOp
    /\ prevOp = NoOp
    /\ written = [p \in Paths |-> NoPlain]

\* t.RoundTrip(request) on a transport opened to node n
Serve(n, r) ==
    \E h \in {Handle(nodes[n], r)} :
        /\ nodes' = [nodes EXCEPT ![n] = h.node]
        /\ lastNode' = n
        /\ lastReq' = r
        /\ lastResp' = h.resp
        /\ prevNodes' = nodes
        /\ UNCHANGED <<cliVars, cl, srv>>

(***************************************************************************)
(* Server specification: any user sends any request to one node            *)
(***************************************************************************)
SrvKeys == {fileToKeyIdentifier("x.txt")}
SrvUsers == {"A", "B"}
ShortData == <<104, 105>>
LongData == [i \in 1..LongLen |-> Byte(i)]
SrvData == {ShortData, LongData}
SrvClocks == {0, 2}
SrvSecrets(u) == {<<>>, EncryptRSA(u, SessionKey(9))}
SrvShared == {<<>>, <<[ID |-> UserID("B"), Secret |-> EncryptRSA("B", SessionKey(9))]>>,
              <<[ID |-> UserID("B"), Secret |-> EncryptRSA("B", SessionKey(10))]>>}
\* raw blobs: a zero-owner envelope, and an envelope whose count byte
\* promises more records than it holds
SrvRaw == {<<0>> \o ShortData,
           <<2>> \o UserID("A") \o EncryptRSA("A", SessionKey(9)) \o ShortData}

InitSrv ==
    /\ nodes = [n \in Nodes |-> EmptyNode]
    /\ succ = [k \in SrvKeys |-> Bootstrap]
    /\ InitCli
    /\ lastNode = Bootstrap
    /\ lastReq = NoRequest
    /\ lastResp = ErrorResponse
    /\ prevNodes = nodes

SrvGetFile ==
    \E k \in SrvKeys, u \in SrvUsers :
        Serve(Bootstrap, Request("GetFile", k, UserID(u), <<>>, <<>>, <<>>, 0))

SrvPostFile ==
    \E k \in SrvKeys, u \in SrvUsers, d \in SrvData, c \in SrvClocks, sw \in SrvShared :
      \E s \in SrvSecrets(u) :
        /\ nodes[Bootstrap].clock < MaxSrvClock
        /\ Serve(Bootstrap, Request("PostFile", k, UserID(u), s, sw, d, c))

SrvDeleteFile ==
    \E k \in SrvKeys, u \in SrvUsers, c \in SrvClocks :
        /\ nodes[Bootstrap].clock < MaxSrvClock
        /\ Serve(Bootstrap, Request("DeleteFile", k, UserID(u), <<>>, <<>>, <<>>, c))

SrvGetPublicKey ==
    \E k \in SrvKeys, u \in SrvUsers :
        /\ nodes[Bootstrap].clock < MaxSrvClock
        /\ Serve(Bootstrap, Request("GetPublicKey", k, UserID(u), <<>>, <<>>, <<>>, 0))

SrvPostPublicKey ==
    \E k \in SrvKeys, u \in SrvUsers, d \in SrvRaw :
        /\ nodes[Bootstrap].clock < MaxSrvClock
        /\ Serve(Bootstrap, Request("PostPublicKey", k, UserID(u), <<>>, <<>>, d, 0))

NextSrv ==
    \/ SrvGetFile
    \/ SrvPostFile
    \/ SrvDeleteFile
    \/ SrvGetPublicKey
    \/ SrvPostPublicKey

SpecSrv == InitSrv /\ [][NextSrv]_vars

(***************************************************************************)
(* PostFile requests with long shared_with lists, for the owner count byte *)
(***************************************************************************)
\* the largest value of the count byte
ByteMax == 255
\* the server clock value at which this specification stops posting
MaxCountClock == 3

\* a shared_with list of n records
ManyShared(n) ==
    [i \in 1..n |-> [ID |-> [j \in 1..IDLen |-> Byte(i + 10)],
                     Secret |-> EncryptRSA("B", SessionKey(9))]]

CountLens == {0, 1, ByteMax - 1, ByteMax}

CountPostFile ==
    \E n \in CountLens, u \in SrvUsers, k \in SrvKeys :
        /\ nodes[Bootstrap].clock < MaxCountClock
        /\ Serve(Bootstrap, Request("PostFile", k, UserID(u),
                                    EncryptRSA(u, SessionKey(9)), ManyShared(n),
                                    ShortData, 0))

CountGetFile ==
    \E u \in SrvUsers, k \in SrvKeys :
        Serve(Bootstrap, Request("GetFile", k, UserID(u), <<>>, <<>>, <<>>, 0))

NextCount ==
    \/ CountPostFile
    \/ CountGetFile

SpecCount == InitSrv /\ [][NextCount]_vars

(***************************************************************************)
(* Handlers running side by side on one server.  Every file handler starts *)
(* with fileMu.Lock() and a deferred Unlock; between them it reads the     *)
(* blob (Get), parses and authorizes, and writes (Post or Delete).         *)
(***************************************************************************)
MuKey == fileToKeyIdentifier("x.txt")
MuEnvelope == <<1>> \o UserID("A") \o EncryptRSA("A", SessionKey(9)) \o ShortData
MuShare(v) == <<[ID |-> UserID(v), Secret |-> EncryptRSA(v, SessionKey(9))]>>
MuRequests ==
    {Request("PostFile", MuKey, UserID("A"), EncryptRSA("A", SessionKey(9)),
             MuShare("B"), ShortData, 0),
     Request("PostFile", MuKey, UserID("A"), EncryptRSA("A", SessionKey(9)),
             MuShare("C"), <<98, 121, 101>>, 0),
     Request("GetFile", MuKey, UserID("A"), <<>>, <<>>, <<>>, 0),
     Request("GetFile", MuKey, UserID("B"), <<>>, <<>>, <<>>, 0),
     Request("DeleteFile", MuKey, UserID("A"), <<>>, <<>>, <<>>, 0)}

\* a Lock that never waits
MutexIgnored(s) == TRUE

\* fileMu.Lock() returns once no goroutine holds the mutex
MutexFree(s) == s.mu = "none"

\* the node as the goroutine saw it at its Get
SeenNode(nd, th) ==
    [store |-> IF th.present THEN Post(nd.store, th.req.key, th.blob)
                             ELSE Delete(nd.store, th.req.key),
     clock |-> nd.clock]

\* the handler's work after its Get, on what it read: the response, and the
\* node after the Post or Delete the handler makes (if it makes one)
ActOn(nd, th) ==
    Let(Handle(SeenNode(nd, th), th.req), LAMBDA h :
      [resp |-> h.resp,
       node |-> [clock |-> h.node.clock,
                 store |-> IF h.resp.status # "Success" \/ th.req.method = "GetFile"
                             THEN nd.store
                           ELSE IF th.req.key \in DOMAIN h.node.store
                             THEN Post(nd.store, th.req.key, h.node.store[th.req.key])
                           ELSE Delete(nd.store, th.req.key)]])

\* a connection brings a request to goroutine t
ThAccept(t) ==
    /\ srv.th[t].pc = "idle"
    /\ \E r \in MuRequests :
          srv' = [srv EXCEPT
                    !.th[t].pc = "lock", !.th[t].req = r,
                    !.overlap = @ \/ \E u \in Threads \ {t} :
                                        srv.th[u].pc \notin {"idle", "done"}]
    /\ UNCHANGED <<srvVars, cliVars, cl>>

\* fileMu.Lock()
ThLock(t) ==
    /\ srv.th[t].pc = "lock"
    /\ MutexFree(srv)
    /\ srv' = [srv EXCEPT !.mu = t, !.th[t].pc = "get"]
    /\ UNCHANGED <<srvVars, cliVars, cl>>

\* buf, err := Get(dataPath, r.Header.Key)
ThGet(t) ==
    /\ srv.th[t].pc = "get"
    /\ srv' = [srv EXCEPT
                 !.th[t].pc = "act",
                 !.th[t].present = srv.th[t].req.key \in DOMAIN nodes[Bootstrap].store,
                 !.th[t].blob = IF srv.th[t].req.key \in DOMAIN nodes[Bootstrap].store
                                  THEN nodes[Bootstrap].store[srv.th[t].req.key]
                                  ELSE <<>>]
    /\ UNCHANGED <<srvVars, cliVars, cl>>

\* parse, authorize, and Post or Delete
ThAct(t) ==
    /\ srv.th[t].pc = "act"
    /\ \E a \in {ActOn(nodes[Bootstrap], srv.th[t])} :
          /\ nodes' = [nodes EXCEPT ![Bootstrap] = a.node]
          /\ srv' = [srv EXCEPT !.th[t].pc = "unlock", !.th[t].resp = a.resp]
    /\ UNCHANGED <<lastNode, lastReq, lastResp, prevNodes, cliVars, cl>>

\* the deferred fileMu.Unlock(), and the response goes out
ThUnlock(t) ==
    /\ srv.th[t].pc = "unlock"
    /\ srv' = [srv EXCEPT !.mu = "none", !.th[t].pc = "done"]
    /\ UNCHANGED <<srvVars, cliVars, cl>>

InitMu ==
    /\ \E st \in {EmptyStore, Post(EmptyStore, MuKey, MuEnvelope)} :
          /\ nodes = [n \in Nodes |->
                        IF n = Bootstrap THEN [store |-> st, clock |-> 0]
                                         ELSE EmptyNode]
          /\ srv = [SrvIdle EXCEPT !.start = [store |-> st, clock |-> 0]]
    /\ succ = [k \in {MuKey} |-> Bootstrap]
    /\ lastNode = Bootstrap
    /\ lastReq = NoRequest
    /\ lastResp = ErrorResponse
    /\ prevNodes = nodes
    /\ cl = [c \in Clients |-> ClientOff]
    /\ lastOp = NoOp
    /\ prevOp = NoOp
    /\ written = [p \in Paths |-> NoPlain]

NextMu ==
    \E t \in Threads :
        \/ ThAccept(t)
        \/ ThLock(t)
        \/ ThGet(t)
        \/ ThAct(t)
        \/ ThUnlock(t)

SpecMu == InitMu /\ [][NextMu]_vars

(***************************************************************************)
(* Command-line client: backup, getfile and share.  Each command is one    *)
(* run of the client process.                                              *)
(***************************************************************************)
\* t.RoundTrip(r) on a transport to node n, in world w (node -> state)
RoundTrip(w, n, r) ==
    Let(Handle(w[n], r), LAMBDA h :
      [w |-> [w EXCEPT ![n] = h.node], resp |-> h.resp])

\* getNode(key, id, t): the bootstrap peer answers GetSuccessor
getNode(key) == succ[key]

\* getKey(key, id, t) on a transport to node n
getKey(w, n, key, u) ==
    RoundTrip(w, n, Request("GetFile", key, UserID(u), <<>>, <<>>, <<>>, 0))


\* what a command leaves behind: the world, the last round trip it made
\* and the world before that round trip
Outcome(w, before, n, req, resp, ok, plain) ==
    [w |-> w, before |-> before, node |-> n, req |-> req, resp |-> resp,
     ok |-> ok, plain |-> plain]

GetFileRequest(key, u) == Request("GetFile", key, UserID(u), <<>>, <<>>, <<>>, 0)

\* the backup walkFn for one file: getKey goes over t, the transport to the
\* bootstrap peer; the PostFile goes over st, the transport to the located
\* node
BackupRun(w, u, p, plaintext, newKey, newIV) ==
    Let(fileToKeyIdentifier(p), LAMBDA key :
    Let(getKey(w, Bootstrap, key, u), LAMBDA g :
      IF g.resp.status = "Error"
        THEN \* no envelope seen: new session key, new IV
             Let(Request("PostFile", key, UserID(u), EncryptRSA(u, newKey), <<>>,
                         newIV \o EncryptWithIV(newKey, plaintext, newIV), 0),
                 LAMBDA req :
             Let(RoundTrip(g.w, getNode(key), req), LAMBDA post :
               Outcome(post.w, g.w, getNode(key), req, post.resp,
                       post.resp.status = "Success", plaintext)))
        ELSE \* session key and IV of the envelope seen
             Let(DecryptRSA(u, g.resp.secret), LAMBDA sKey :
               \* resp.Data[:aes.BlockSize] panics on shorter data
               IF ~sKey.ok \/ Len(g.resp.data) < BlockSize
                 THEN Outcome(g.w, w, Bootstrap, GetFileRequest(key, u), g.resp,
                              FALSE, plaintext)
                 ELSE
             Let(SubSeq(g.resp.data, 1, BlockSize), LAMBDA iv :
             Let(Request("PostFile", key, UserID(u), g.resp.secret, <<>>,
                         iv \o EncryptWithIV(sKey.key, plaintext, iv), 0),
                 LAMBDA req :
             Let(RoundTrip(g.w, getNode(key), req), LAMBDA post :
               Outcome(post.w, g.w, getNode(key), req, post.resp,
                       post.resp.status = "Success", plaintext)))))))

\* the getfile command: getKey goes over t, the transport to the bootstrap
\* peer
GetfileRun(w, u, p) ==
    Let(fileToKeyIdentifier(p), LAMBDA key :
    Let(getKey(w, Bootstrap, key, u), LAMBDA g :
    Let(DecryptRSA(u, g.resp.secret), LAMBDA sKey :
      IF /\ g.resp.status = "Success"
         /\ sKey.ok
         /\ Len(g.resp.data) >= BlockSize
        THEN Outcome(g.w, w, Bootstrap, GetFileRequest(key, u), g.resp, TRUE,
                     Decrypt(sKey.key,
                             SubSeq(g.resp.data, BlockSize + 1, Len(g.resp.data)),
                             SubSeq(g.resp.data, 1, BlockSize)))
        ELSE Outcome(g.w, w, Bootstrap, GetFileRequest(key, u), g.resp, FALSE,
                     NoPlain))))

\* a share command that goes on to its PostFile after a failed step
ShareRunOn(w, u, p, v) ==
    Let(fileToKeyIdentifier(p), LAMBDA key :
    Let(getKey(w, getNode(key), key, u), LAMBDA g :
    Let(DecryptRSA(u, g.resp.secret), LAMBDA sKey :
    Let(Request("PostFile", key, UserID(u), g.resp.secret,
                <<[ID |-> UserID(v), Secret |-> EncryptRSA(v, SessionKey(9))]>>,
                g.resp.data, 0), LAMBDA req :
    Let(RoundTrip(g.w, getNode(key), req), LAMBDA post :
      Outcome(post.w, g.w, getNode(key), req, post.resp,
              g.resp.status = "Success" /\ sKey.ok
                /\ post.resp.status = "Success", NoPlain))))))

\* the share command: both round trips go over st, the transport to the
\* located node
ShareRun(w, u, p, v) ==
    Let(fileToKeyIdentifier(p), LAMBDA key :
    Let(getKey(w, getNode(key), key, u), LAMBDA g :
    Let(DecryptRSA(u, g.resp.secret), LAMBDA sKey :
      IF g.resp.status = "Error" \/ ~sKey.ok
        THEN Outcome(g.w, w, getNode(key), GetFileRequest(key, u), g.resp,
                     FALSE, NoPlain)
        ELSE
    Let(Request("PostFile", key, UserID(u), g.resp.secret,
                <<[ID |-> UserID(v), Secret |-> EncryptRSA(v, sKey.key)]>>,
                g.resp.data, 0), LAMBDA req :
    Let(RoundTrip(g.w, getNode(key), req), LAMBDA post :
      Outcome(post.w, g.w, getNode(key), req, post.resp,
              post.resp.status = "Success", NoPlain))))))

\* a command has run with outcome o
Ran(o, op) ==
    /\ nodes' = o.w
    /\ prevNodes' = o.before
    /\ lastNode' = o.node
    /\ lastReq' = o.req
    /\ lastResp' = o.resp
    /\ prevOp' = lastOp
    /\ lastOp' = op
    /\ UNCHANGED <<cl, srv>>

CliUsers == {"A", "B"}
CliPaths == {"x.txt"}
CliKeys == {fileToKeyIdentifier(p) : p \in CliPaths}
Plaintexts == {<<104, 105>>, <<98, 121, 101>>}
CliSessionKeys == {SessionKey(9), SessionKey(10)}
CliIVs == {IV(1), IV(2)}

InitCliSpec ==
    /\ nodes = [n \in Nodes |-> EmptyNode]
    /\ succ \in [CliKeys -> Nodes]
    /\ lastNode = Bootstrap
    /\ lastReq = NoRequest
    /\ lastResp = ErrorResponse
    /\ prevNodes = nodes
    /\ InitCli

Backup ==
    \E u \in CliUsers, p \in CliPaths, pt \in Plaintexts,
       k \in CliSessionKeys, iv \in CliIVs :
        \E o \in {BackupRun(nodes, u, p, pt, k, iv)} :
            /\ nodes[getNode(fileToKeyIdentifier(p))].clock < MaxCliClock
            /\ Ran(o, [op |-> "backup", user |-> u, path |-> p, peer |-> u,
                       ok |-> o.ok, plain |-> pt])
            /\ written' = IF o.ok THEN [written EXCEPT ![p] = pt] ELSE written
            /\ UNCHANGED succ

Getfile ==
    \E u \in CliUsers, p \in CliPaths :
        \E o \in {GetfileRun(nodes, u, p)} :
            /\ Ran(o, [op |-> "getfile", user |-> u, path |-> p, peer |-> u,
                       ok |-> o.ok, plain |-> o.plain])
            /\ UNCHANGED <<succ, written>>

Share ==
    \E u \in CliUsers, p \in CliPaths, v \in CliUsers :
        \E o \in {ShareRun(nodes, u, p, v)} :
            /\ nodes[getNode(fileToKeyIdentifier(p))].clock < MaxCliClock
            /\ Ran(o, [op |-> "share", user |-> u, path |-> p, peer |-> v,
                       ok |-> o.ok, plain |-> NoPlain])
            /\ UNCHANGED <<succ, written>>

NextCli ==
    \/ Backup
    \/ Getfile
    \/ Share

SpecCli == InitCliSpec /\ [][NextCli]_vars

(***************************************************************************)
(* A share command side by side with the updates of an owner.  The share   *)
(* makes two round trips, getKey and the PostFile, and the server takes    *)
(* other requests between them.  lastOp holds the position of the share    *)
(* process: after getKey, the response it keeps in resp; prevOp is the     *)
(* last update of an owner.                                                *)
(***************************************************************************)
\* bound: the requests the node serves
MaxShareClock == 3

ShareKey == fileToKeyIdentifier("x.txt")
ShareOwners == {"A", "B"}
Ciphertext(pt) == IV(1) \o EncryptWithIV(SessionKey(9), pt, IV(1))
\* the envelope of x.txt, backed up by A and shared with B
SharedEnvelope ==
    <<2>> \o UserID("A") \o EncryptRSA("A", SessionKey(9))
          \o UserID("B") \o EncryptRSA("B", SessionKey(9))
          \o Ciphertext(<<104, 105>>)

\* share, from the PostFile on: the data posted is the data getKey returned
SharePost(w, pending) ==
    Let(Request("PostFile", pending.key, UserID(pending.user), pending.resp.secret,
                <<[ID |-> UserID(pending.peer),
                   Secret |-> EncryptRSA(pending.peer, pending.sKey)]>>,
                pending.resp.data, 0), LAMBDA req :
    Let(RoundTrip(w, getNode(pending.key), req), LAMBDA post :
      Outcome(post.w, w, getNode(pending.key), req, post.resp,
              post.resp.status = "Success", NoPlain)))

InitShare ==
    /\ succ \in [{ShareKey} -> Nodes]
    /\ nodes = [n \in Nodes |->
                  IF n = succ[ShareKey]
                    THEN [store |-> Post(EmptyStore, ShareKey, SharedEnvelope),
                          clock |-> 0]
                    ELSE EmptyNode]
    /\ lastNode = Bootstrap
    /\ lastReq = NoRequest
    /\ lastResp = ErrorResponse
    /\ prevNodes = nodes
    /\ InitCli

\* share, up to the response of getKey and the unwrapped session key
ShareGetKey ==
    \E u \in ShareOwners, v \in Users :
      \E g \in {getKey(nodes, getNode(ShareKey), ShareKey, u)} :
        \E sKey \in {DecryptRSA(u, g.resp.secret)} :
          /\ lastOp.op # "share1"
          /\ nodes[getNode(ShareKey)].clock < MaxShareClock
          /\ nodes' = g.w
          /\ prevNodes' = nodes
          /\ lastNode' = getNode(ShareKey)
          /\ lastReq' = GetFileRequest(ShareKey, u)
          /\ lastResp' = g.resp
          /\ lastOp' = IF g.resp.status = "Error" \/ ~sKey.ok
                         THEN [op |-> "share", user |-> u, path |-> "x.txt",
                               peer |-> v, ok |-> FALSE, plain |-> NoPlain]
                         ELSE [op |-> "share1", user |-> u, key |-> ShareKey,
                               peer |-> v, resp |-> g.resp, sKey |-> sKey.key]
          /\ UNCHANGED <<succ, prevOp, written, cl, srv>>

\* share, the PostFile and the end of the command
SharePostFile ==
    /\ lastOp.op = "share1"
    /\ \E o \in {SharePost(nodes, lastOp)} :
          /\ nodes' = o.w
          /\ prevNodes' = o.before
          /\ lastNode' = o.node
          /\ lastReq' = o.req
          /\ lastResp' = o.resp
          /\ lastOp' = [op |-> "share", user |-> lastOp.user, path |-> "x.txt",
                         peer |-> lastOp.peer, ok |-> o.ok, plain |-> NoPlain]
    /\ UNCHANGED <<succ, prevOp, written, cl, srv>>

\* an owner posts new content for the file (the PostFile of a backup)
OwnerUpdate ==
    \E u \in ShareOwners, pt \in Plaintexts :
      \E post \in {RoundTrip(nodes, getNode(ShareKey),
                              Request("PostFile", ShareKey, UserID(u),
                                      EncryptRSA(u, SessionKey(9)), <<>>,
                                      Ciphertext(pt), 0))} :
          /\ nodes[getNode(ShareKey)].clock < MaxShareClock
          /\ nodes' = post.w
          /\ prevOp' = [op |-> "update", user |-> u, data |-> Ciphertext(pt),
                         during |-> lastOp.op = "share1"]
          /\ UNCHANGED <<succ, lastNode, lastReq, lastResp, prevNodes, lastOp,
                         written, cl, srv>>

NextShare ==
    \/ ShareGetKey
    \/ SharePostFile
    \/ OwnerUpdate

SpecShare == InitShare /\ [][NextShare]_vars

(***************************************************************************)
(* Reading and writing the stored transaction log                          *)
(***************************************************************************)
\* GetTransactionLog(thisID, peer, ...): the successor of the log id is
\* asked for, but the GetFile goes to peer.Addr
GetTransactionLog(w, peer, u) ==
    Let(RoundTrip(w, peer, GetFileRequest(TxLogID(u), u)), LAMBDA g :
      IF g.resp.status = "Error" THEN [w |-> g.w, ok |-> FALSE, log |-> EmptyLog]
      ELSE Let(GobDecodeLog(g.resp.data), LAMBDA d :
             [w |-> g.w, ok |-> d.ok, log |-> d.log]))

\* PutTransactionLog(thisID, peer, ..., log): PostFile of the serialized
\* log, with no secret, to the successor of the log id; the client clock
\* takes the response clock
PutTransactionLog(w, clock, u, log) ==
    Let(RoundTrip(w, getNode(TxLogID(u)),
                  Request("PostFile", TxLogID(u), UserID(u), <<>>, <<>>,
                          GobEncodeLog(log), 0)), LAMBDA post :
      [w |-> post.w, clock |-> IncrementClock(clock, post.resp.clock),
       resp |-> post.resp])

(***************************************************************************)
(* The sync client.  One action is one round trip (or one local file       *)
(* operation) of the process; processes interleave between them.           *)
(***************************************************************************)
\* bounds of the sync specifications: synchronize rounds a process runs and
\* edits the user makes in its directory
MaxRounds == 4
MaxRounds2 == 2
MaxEdits == 1

SyncPaths == {"x.txt"}
SyncKeys == {fileToKeyIdentifier(p) : p \in SyncPaths} \cup {TxLogID("A")}
LongData2 == [i \in 1..LongLen |-> Byte(i + 7)]

\* the blob the ring holds for the user's transaction log (empty if none)
StoredLogBlob(w, u) ==
    IF TxLogID(u) \in DOMAIN w[getNode(TxLogID(u))].store
      THEN w[getNode(TxLogID(u))].store[TxLogID(u)]
      ELSE <<>>

\* Synchronize, the decision for one path k of the fetched log tl against
\* oldTransactionLog
ReconcileEqualPosts(old, tl, k) ==
    IF k \notin DOMAIN old THEN "get"
    ELSE Let(LastEntry(tl[k].Entries), LAMBDA lastEntry :
         Let(LastEntry(old[k].Entries), LAMBDA oldLastEntry :
           IF oldLastEntry.Timestamp < lastEntry.Timestamp
             THEN IF lastEntry.Operation = "Delete" THEN "remove" ELSE "get"
           ELSE IF oldLastEntry.Operation = "Delete" THEN "delete" ELSE "post"))

\* the decision without a look at the operation of the last entries
ReconcileByTimeOnly(old, tl, k) ==
    IF k \notin DOMAIN old THEN "get"
    ELSE Let(LastEntry(tl[k].Entries), LAMBDA lastEntry :
         Let(LastEntry(old[k].Entries), LAMBDA oldLastEntry :
           IF oldLastEntry.Timestamp < lastEntry.Timestamp THEN "get"
           ELSE IF oldLastEntry.Timestamp = lastEntry.Timestamp THEN "none"
           ELSE "post"))

ReconcileAction(old, tl, k) ==
    IF k \notin DOMAIN old THEN "get"
    ELSE Let(LastEntry(tl[k].Entries), LAMBDA lastEntry :
         Let(LastEntry(old[k].Entries), LAMBDA oldLastEntry :
           IF oldLastEntry.Timestamp < lastEntry.Timestamp
             THEN IF lastEntry.Operation = "Delete" THEN "remove" ELSE "get"
           ELSE IF oldLastEntry.Timestamp = lastEntry.Timestamp THEN "none"
           ELSE IF oldLastEntry.Operation = "Delete" THEN "delete" ELSE "post"))

\* the watcher left attached
KeepWatchers(c) == c

\* RemoveWatchers(watcher, localPath)
RemoveWatchers(c) == [c EXCEPT !.watching = FALSE]

\* AddWatchers(watcher, localPath)
AddWatchers(c) == [c EXCEPT !.watching = TRUE]

\* the event queue of the watcher after the file operation op on path p,
\* made by the user or by the sync process itself: an attached watcher
\* queues an event, a detached one sees nothing
Notify(c, op, p, by) ==
    IF c.watching
      THEN Append(c.events, [op |-> op, path |-> p, by |-> by])
      ELSE c.events

\* Synchronize whose walk posts every local file
SynchronizeFetchAll(w, c) ==
    Let(GetTransactionLog(w, Bootstrap, c.user), LAMBDA g :
      [w |-> g.w,
       c |-> [c EXCEPT
                !.pc = "walk", !.inSync = TRUE,
                !.tl = g.log,
                !.push = SortedPaths(DOMAIN c.files),
                !.rec = {a \in {[kind |-> ReconcileAction(c.prior, g.log, k),
                                   path |-> k] : k \in DOMAIN g.log} :
                            a.kind # "none"},
                !.roundsLeft = @ - 1,
                !.fetchOK = g.ok, !.issued = {}, !.got = {},
                !.localSame = (c.files = c.endFiles),
                !.remoteSame = (StoredLogBlob(w, c.user) = c.endBlob)]])

\* Synchronize up to the walk: the log is fetched from the bootstrap peer,
\* a failed fetch leaves an empty log; the walk will post the local files
\* that are not in it, the range loop will reconcile its paths
SynchronizeFetch(w, c) ==
    Let(GetTransactionLog(w, Bootstrap, c.user), LAMBDA g :
      [w |-> g.w,
       c |-> [c EXCEPT
                !.pc = "walk", !.inSync = TRUE,
                !.tl = g.log,
                !.push = SortedPaths(DOMAIN c.files \ DOMAIN g.log),
                !.rec = {a \in {[kind |-> ReconcileAction(c.prior, g.log, k),
                                   path |-> k] : k \in DOMAIN g.log} :
                            a.kind # "none"},
                !.roundsLeft = @ - 1,
                !.fetchOK = g.ok, !.issued = {}, !.got = {},
                !.localSame = (c.files = c.endFiles),
                !.remoteSame = (StoredLogBlob(w, c.user) = c.endBlob)]])

\* PostFile up to the log fetch: the file is read and posted as it is,
\* with no secret, to the node of the path; the status is not looked at
PostFileContent(w, c, p, inSync) ==
    Let(IF p \in DOMAIN c.files THEN c.files[p] ELSE <<>>, LAMBDA data :
    Let(RoundTrip(w, getNode(fileToKeyIdentifier(p)),
                  Request("PostFile", fileToKeyIdentifier(p), UserID(c.user),
                          <<>>, <<>>, data, c.clock)), LAMBDA post :
      [w |-> post.w, resp |-> post.resp, data |-> data,
       c |-> [c EXCEPT
                !.pc = "post2", !.inSync = inSync, !.opPath = p,
                !.opNode = getNode(fileToKeyIdentifier(p)),
                !.opStatus = post.resp.status,
                !.clock = IncrementClock(c.clock, post.resp.clock),
                !.issued = @ \cup {p}, !.postedData = data]]))

\* PostFile, the log fetch: the log is asked of the node of the path; the
\* Update entry takes the clock as timestamp
PostFileLog(w, c) ==
    Let(GetTransactionLog(w, c.opNode, c.user), LAMBDA g :
      [w |-> g.w,
       c |-> [c EXCEPT
                !.pc = "post3",
                !.opFetched = g.log, !.opFetchOK = g.ok,
                !.opLog = AppendEntry(g.log, c.opPath,
                              TransactionEntry("Update", c.user, c.clock)),
                !.posted = c.clock]])

\* DeleteFile up to the PUT: no request goes to the node of the path; the
\* log is asked of the bootstrap peer and a Delete entry appended
DeleteFileLog(w, c, p, inSync) ==
    Let(GetTransactionLog(w, Bootstrap, c.user), LAMBDA g :
      [w |-> g.w,
       c |-> [c EXCEPT
                !.pc = "del2", !.inSync = inSync, !.opPath = p,
                !.opFetched = g.log, !.opFetchOK = g.ok,
                !.opLog = AppendEntry(g.log, p,
                              TransactionEntry("Delete", c.user, c.clock)),
                !.issued = @ \cup {p}]])

\* the PUT that ends PostFile and DeleteFile
PutLog(w, c) ==
    Let(PutTransactionLog(w, c.clock, c.user, c.opLog), LAMBDA put :
      [w |-> put.w,
       c |-> [c EXCEPT
                !.pc = IF c.inSync THEN "walk" ELSE "idle",
                !.opStatus = "none",
                !.opFetched = EmptyLog, !.opFetchOK = FALSE,
                !.stamp = c.opLog[c.opPath].Entries[
                             Len(c.opLog[c.opPath].Entries)].Timestamp,
                !.clock = put.clock,
                !.posts = IF c.pc = "post3" THEN @ + 1 ELSE @]])

\* GetFile of the sync client: on Success the response data is written to
\* the local file as it came
SyncGetFile(w, c, p) ==
    Let(RoundTrip(w, getNode(fileToKeyIdentifier(p)),
                  GetFileRequest(fileToKeyIdentifier(p), c.user)), LAMBDA g :
      [w |-> g.w,
       c |-> IF g.resp.status = "Error"
               THEN [c EXCEPT !.got = @ \cup {p}]
               ELSE [c EXCEPT
                       !.got = @ \cup {p},
                       !.events = Notify(c, "Write", p, "sync"),
                       !.clock = IncrementClock(c.clock, g.resp.clock),
                       !.files = [q \in DOMAIN c.files \cup {p} |->
                                    IF q = p THEN g.resp.data ELSE c.files[q]]]])

\* a step of process c leaves the world w and the process state r; op is
\* the command the step completes, NoOp if it completes none
Stepped(c, w, r, op) ==
    /\ nodes' = w
    /\ cl' = [cl EXCEPT ![c] = r]
    /\ lastOp' = IF op = NoOp THEN lastOp ELSE op
    /\ prevOp' = IF op = NoOp THEN prevOp ELSE lastOp
    /\ UNCHANGED <<succ, lastNode, lastReq, lastResp, prevNodes, srv>>

\* every process has completed a PostFile and none is inside one
AllPosted ==
    \A d \in Clients : cl[d].posts >= 1 /\ cl[d].pc \notin {"post2", "post3"}

\* the initial Synchronize, and the poll tick: RemoveWatchers; Synchronize
Tick(c) ==
    /\ cl[c].pc \in {"start", "idle"}
    /\ cl[c].roundsLeft > 0
    /\ \E o \in {SynchronizeFetch(nodes,
                     [(IF cl[c].pc = "idle" THEN RemoveWatchers(cl[c]) ELSE cl[c])
                        EXCEPT !.afterBoth = AllPosted])} :
          Stepped(c, o.w, o.c, NoOp)
    /\ UNCHANGED written

\* the same, when the round trip of the log fetch fails (a transport error):
\* GetTransactionLog returns an empty log and an error, Synchronize goes on
TickFetchFails(c) ==
    /\ cl[c].pc \in {"start", "idle"}
    /\ cl[c].roundsLeft > 0
    /\ \E o \in {SynchronizeFetch([n \in Nodes |-> EmptyNode],
                     [(IF cl[c].pc = "idle" THEN RemoveWatchers(cl[c]) ELSE cl[c])
                        EXCEPT !.afterBoth = AllPosted])} :
          Stepped(c, nodes,
                  [o.c EXCEPT !.remoteSame = (StoredLogBlob(nodes, cl[c].user)
                                                = cl[c].endBlob)], NoOp)
    /\ UNCHANGED written

\* walkFn: PostFile of a local file that is not in the fetched log
WalkPost(c) ==
    /\ cl[c].pc = "walk"
    /\ cl[c].push # <<>>
    /\ \E o \in {PostFileContent(nodes, [cl[c] EXCEPT !.push = Tail(@)],
                                 Head(cl[c].push), TRUE)} :
          /\ Stepped(c, o.w, o.c, NoOp)
          /\ written' = IF o.resp.status = "Success"
                          THEN [written EXCEPT ![Head(cl[c].push)] = o.data]
                          ELSE written

\* the range loop over the fetched log, one path per step, in any order
Reconcile(c) ==
    /\ cl[c].pc = "walk"
    /\ cl[c].push = <<>>
    /\ \E a \in cl[c].rec :
        \E r \in {[cl[c] EXCEPT !.rec = @ \ {a}]} :
          CASE a.kind = "get" ->
                 \E o \in {SyncGetFile(nodes, r, a.path)} :
                    Stepped(c, o.w, o.c, NoOp) /\ UNCHANGED written
            [] a.kind = "remove" ->
                 /\ Stepped(c, nodes,
                            [r EXCEPT !.files = [q \in DOMAIN r.files \ {a.path} |->
                                                    r.files[q]],
                                      !.events = IF a.path \in DOMAIN r.files
                                                   THEN Notify(r, "Remove", a.path, "sync")
                                                   ELSE @], NoOp)
                 /\ UNCHANGED written
            [] a.kind = "delete" ->
                 \E o \in {DeleteFileLog(nodes, r, a.path, TRUE)} :
                    Stepped(c, o.w, o.c, NoOp) /\ UNCHANGED written
            [] OTHER ->
                 \E o \in {PostFileContent(nodes, r, a.path, TRUE)} :
                    /\ Stepped(c, o.w, o.c, NoOp)
                    /\ written' = IF o.resp.status = "Success"
                                    THEN [written EXCEPT ![a.path] = o.data]
                                    ELSE written

\* PostFile: GetTransactionLog and the entry
PostLogFetch(c) ==
    /\ cl[c].pc = "post2"
    /\ \E o \in {PostFileLog(nodes, cl[c])} : Stepped(c, o.w, o.c, NoOp)
    /\ UNCHANGED written

\* PostFile and DeleteFile: PutTransactionLog
PutLogStep(c) ==
    /\ cl[c].pc \in {"post3", "del2"}
    /\ \E o \in {PutLog(nodes, cl[c])} :
          Stepped(c, o.w, o.c,
                  [op |-> IF cl[c].pc = "post3" THEN "post_file" ELSE "delete_file",
                   client |-> c, path |-> cl[c].opPath])
    /\ UNCHANGED written

\* Synchronize returns the fetched log, which becomes the old log of the
\* next round; AddWatchers
SyncEnd(c) ==
    /\ cl[c].pc = "walk"
    /\ cl[c].push = <<>>
    /\ cl[c].rec = {}
    /\ Stepped(c, nodes,
               [AddWatchers(cl[c]) EXCEPT
                  !.pc = "idle", !.inSync = FALSE,
                  !.prior = cl[c].tl, !.priorOK = cl[c].fetchOK,
                  !.rounds = Min(@ + 1, MaxRounds),
                  !.further = @ \/ cl[c].afterBoth,
                  !.endFiles = cl[c].files,
                  !.endBlob = StoredLogBlob(nodes, cl[c].user)],
               [op |-> "synchronize", client |-> c, path |-> ""])
    /\ UNCHANGED written

\* the main loop takes a watcher event: Write -> PostFile, Remove -> DeleteFile
HandleEvent(c) ==
    /\ cl[c].pc = "idle"
    /\ cl[c].events # <<>>
    /\ \E r \in {[cl[c] EXCEPT !.events = Tail(@)]}, e \in {Head(cl[c].events)} :
          IF e.op = "Write"
            THEN \E o \in {PostFileContent(nodes, r, e.path, FALSE)} :
                    /\ Stepped(c, o.w, o.c, NoOp)
                    /\ written' = IF o.resp.status = "Success"
                                    THEN [written EXCEPT ![e.path] = o.data]
                                    ELSE written
            ELSE \E o \in {DeleteFileLog(nodes, r, e.path, FALSE)} :
                    Stepped(c, o.w, o.c, NoOp) /\ UNCHANGED written

\* the goroutine started before the first Synchronize reaches its receive
\* on signalChan
SigStart(c) ==
    /\ cl[c].pc # "off"
    /\ cl[c].sig = "new"
    /\ Stepped(c, nodes, [cl[c] EXCEPT !.sig = "recv"], NoOp)
    /\ UNCHANGED written

\* an interrupt is delivered to the process: signalChan has no buffer and
\* the runtime does not block on it, so the goroutine takes the signal when
\* it is waiting in its receive and goes on to send on quitChan; otherwise
\* the signal is dropped
Interrupt(c) ==
    /\ cl[c].pc # "off"
    /\ ~cl[c].intr
    /\ Stepped(c, nodes,
               [cl[c] EXCEPT !.intr = TRUE,
                             !.sig = IF @ = "recv" THEN "send" ELSE @], NoOp)
    /\ UNCHANGED written

\* the select takes quitChan: os.Exit(0)
Quit(c) ==
    /\ cl[c].pc = "idle"
    /\ cl[c].sig = "send"
    /\ Stepped(c, nodes, [cl[c] EXCEPT !.pc = "off", !.exit = 0], NoOp)
    /\ UNCHANGED written

\* the select takes watcher.Errors: os.Exit(1)
WatcherError(c) ==
    /\ cl[c].pc = "idle"
    /\ Stepped(c, nodes, [cl[c] EXCEPT !.pc = "off", !.exit = 1], NoOp)
    /\ UNCHANGED written

\* the user writes a file of the directory; the watcher, if attached,
\* queues a Write event
LocalWrite(c) ==
    /\ cl[c].pc # "off"
    /\ cl[c].edits > 0
    /\ \E p \in SyncPaths :
          Stepped(c, nodes,
                  [cl[c] EXCEPT
                     !.files = [q \in DOMAIN cl[c].files \cup {p} |->
                                  IF q = p THEN ShortData ELSE cl[c].files[q]],
                     !.events = Notify(cl[c], "Write", p, "user"),
                     !.edits = @ - 1, !.edited = TRUE], NoOp)
    /\ UNCHANGED written

\* the user removes a file of the directory while the process waits in its
\* main loop; the watcher queues a Remove event
LocalRemove(c) ==
    /\ cl[c].pc = "idle"
    /\ cl[c].edits > 0
    /\ \E p \in DOMAIN cl[c].files :
          Stepped(c, nodes,
                  [cl[c] EXCEPT
                     !.files = [q \in DOMAIN cl[c].files \ {p} |-> cl[c].files[q]],
                     !.events = Notify(cl[c], "Remove", p, "user"),
                     !.edits = @ - 1, !.edited = TRUE], NoOp)
    /\ UNCHANGED written

\* a sync process at its start, with its directory
ClientOn(files, rounds, edits) ==
    [ClientOff EXCEPT !.pc = "start", !.files = files, !.endFiles = files,
                      !.roundsLeft = rounds, !.edits = edits]

InitSyncRing ==
    /\ nodes = [n \in Nodes |-> EmptyNode]
    /\ succ \in [SyncKeys -> Nodes]
    /\ lastNode = Bootstrap
    /\ lastReq = NoRequest
    /\ lastResp = ErrorResponse
    /\ prevNodes = nodes
    /\ lastOp = NoOp
    /\ prevOp = NoOp
    /\ written = [p \in Paths |-> NoPlain]
    /\ srv = SrvIdle

\* one sync process
InitSync ==
    /\ InitSyncRing
    /\ cl = [c \in Clients |->
               IF c = "c1"
                 THEN ClientOn([p \in SyncPaths |-> LongData], MaxRounds, MaxEdits)
                 ELSE ClientOff]

\* two sync processes of the same user, each with its own x.txt
InitSync2 ==
    /\ InitSyncRing
    /\ cl = [c \in Clients |->
               IF c = "c1"
                 THEN ClientOn([p \in SyncPaths |-> LongData], MaxRounds2, MaxEdits)
                 ELSE ClientOn([p \in SyncPaths |-> LongData2], MaxRounds2, 0)]

\* the steps of running processes
NextRun ==
    \E c \in Clients :
        \/ Tick(c)
        \/ WalkPost(c)
        \/ Reconcile(c)
        \/ PostLogFetch(c)
        \/ PutLogStep(c)
        \/ SyncEnd(c)
        \/ HandleEvent(c)
        \/ LocalWrite(c)
        \/ LocalRemove(c)

NextSync ==
    \/ NextRun
    \/ \E c \in Clients : TickFetchFails(c)
    \/ \E c \in Clients : SigStart(c)
    \/ \E c \in Clients : Interrupt(c)
    \/ \E c \in Clients : Quit(c)
    \/ \E c \in Clients : WatcherError(c)

\* one process, which may be interrupted and whose log fetch may fail
SpecSync == InitSync /\ [][NextSync]_vars

\* the scheduling of one process: the goroutine gets to run, the first
\* Synchronize is called, a call that has started goes on until it returns,
\* and the select is fair to quitChan whenever it is ready
FairSync ==
    \A c \in Clients :
        /\ WF_vars(SigStart(c))
        /\ WF_vars(cl[c].pc = "start" /\ (Tick(c) \/ TickFetchFails(c)))
        /\ WF_vars(WalkPost(c) \/ Reconcile(c) \/ PostLogFetch(c)
                      \/ PutLogStep(c) \/ SyncEnd(c))
        /\ SF_vars(Quit(c))
SpecSyncFair == SpecSync /\ FairSync

(***************************************************************************)
(* The sync process left running: the poll timer fires for ever, the       *)
(* bootstrap peer holds the log and every round trip is answered           *)
(***************************************************************************)
\* case <-time.After(pollInterval), and the Synchronize before the loop:
\* RemoveWatchers; Synchronize; the loop never runs out of rounds
PollTick(c) ==
    /\ cl[c].pc \in {"start", "idle"}
    /\ \E o \in {SynchronizeFetch(nodes,
                     [(IF cl[c].pc = "idle" THEN RemoveWatchers(cl[c]) ELSE cl[c])
                        EXCEPT !.afterBoth = AllPosted, !.roundsLeft = 1])} :
          Stepped(c, o.w, o.c, NoOp)
    /\ UNCHANGED written

InitLive ==
    /\ InitSyncRing
    /\ succ[TxLogID("A")] = Bootstrap
    /\ cl = [c \in Clients |->
               IF c = "c1"
                 THEN ClientOn([p \in SyncPaths |-> LongData], 0, MaxEdits)
                 ELSE ClientOff]

NextLive ==
    \E c \in Clients :
        \/ PollTick(c)
        \/ WalkPost(c)
        \/ Reconcile(c)
        \/ PostLogFetch(c)
        \/ PutLogStep(c)
        \/ SyncEnd(c)
        \/ HandleEvent(c)
        \/ LocalWrite(c)
        \/ LocalRemove(c)

\* the timer fires whenever the loop waits, a call that has started goes on
\* until it returns, and the select takes a watcher event that is ready
FairLive ==
    \A c \in Clients :
        /\ WF_vars(PollTick(c))
        /\ WF_vars(WalkPost(c) \/ Reconcile(c) \/ PostLogFetch(c)
                      \/ PutLogStep(c) \/ SyncEnd(c))
        /\ SF_vars(HandleEvent(c))
SpecLive == InitLive /\ [][NextLive]_vars /\ FairLive

(***************************************************************************)
(* One Synchronize round of a process that has run before, over the logs   *)
(* another process of the user may have stored                             *)
(***************************************************************************)
\* bounds: the timestamps and the entries per path of the logs drawn
MaxRecTime == 2
MaxRecLen == 2

RecEntry ==
    {TransactionEntry(op, "A", t) : op \in {"Update", "Delete"}, t \in 1..MaxRecTime}
RecEntries ==
    UNION {[1..n -> RecEntry] : n \in 1..MaxRecLen}
\* the logs that hold the one path x.txt
RecLogs ==
    {[p \in SyncPaths |-> [ResourceName |-> p,
                           ResourceID |-> fileToKeyIdentifier(p),
                           Entries |-> es]] : es \in RecEntries}
RecKeys == SyncKeys \cup {fileToKeyIdentifier(p) : p \in Paths}

\* the ring after the log has been PUT twice (the second PUT stores it
\* behind the owner record of the first)
RecRing(log) ==
    Let(PutTransactionLog([n \in Nodes |-> EmptyNode], 0, "A", log), LAMBDA first :
        PutTransactionLog(first.w, first.clock, "A", log).w)

\* a process between two rounds, with x.txt and y.txt in its directory:
\* oldTransactionLog is the log the last round returned (empty if its
\* fetch failed), the watcher is attached
InitRec ==
    /\ succ \in [RecKeys -> Nodes]
    /\ \E remote \in RecLogs : nodes = RecRing(remote)
    /\ lastNode = Bootstrap
    /\ lastReq = NoRequest
    /\ lastResp = ErrorResponse
    /\ prevNodes = nodes
    /\ lastOp = NoOp
    /\ prevOp = NoOp
    /\ written = [p \in Paths |-> NoPlain]
    /\ srv = SrvIdle
    /\ \E old \in RecLogs \cup {EmptyLog} :
          cl = [c \in Clients |->
                  IF c = "c1"
                    THEN [ClientOn([p \in Paths |-> LongData], 1, 0) EXCEPT
                            !.pc = "idle", !.prior = old, !.priorOK = TRUE,
                            !.rounds = 1, !.watching = TRUE, !.sig = "recv",
                            !.clock = MaxRecTime]
                    ELSE ClientOff]

NextRec ==
    \E c \in Clients :
        \/ Tick(c)
        \/ WalkPost(c)
        \/ Reconcile(c)
        \/ PostLogFetch(c)
        \/ PutLogStep(c)
        \/ SyncEnd(c)

SpecRec == InitRec /\ [][NextRec]_vars

(***************************************************************************)
(* The same process left running, with downloads whose round trip fails    *)
(***************************************************************************)
MaxFaults == 1

\* GetFile of the range loop when a round trip of it fails: it logs the
\* error and returns, nothing is written and Synchronize goes on
DownloadFails(c) ==
    /\ cl[c].pc = "walk"
    /\ cl[c].push = <<>>
    /\ Cardinality(cl[c].failed) < MaxFaults
    /\ \E a \in cl[c].rec :
          /\ a.kind = "get"
          /\ Stepped(c, nodes,
                     [cl[c] EXCEPT !.rec = @ \ {a}, !.failed = @ \cup {a.path}],
                     NoOp)
    /\ UNCHANGED written

\* the process between two rounds whose last round fetched no log; the
\* bootstrap peer is the successor of every key
InitRetry ==
    /\ InitRec
    /\ \A k \in RecKeys : succ[k] = Bootstrap
    /\ cl["c1"].prior = EmptyLog

NextRetry ==
    \E c \in Clients :
        \/ PollTick(c)
        \/ WalkPost(c)
        \/ Reconcile(c)
        \/ DownloadFails(c)
        \/ PostLogFetch(c)
        \/ PutLogStep(c)
        \/ SyncEnd(c)

\* the timer fires whenever the loop waits and a call that has started goes
\* on until it returns; no failure has to happen
FairRetry ==
    \A c \in Clients :
        /\ WF_vars(PollTick(c))
        /\ WF_vars(WalkPost(c) \/ Reconcile(c) \/ PostLogFetch(c)
                      \/ PutLogStep(c) \/ SyncEnd(c))
SpecRetry == InitRetry /\ [][NextRetry]_vars /\ FairRetry
\* two processes that run on
SpecSync2 == InitSync2 /\ [][NextRun]_vars

(***************************************************************************)
(* Claims about the handlers, checked under SpecSrv                        *)
(***************************************************************************)
\* the ids of the owner records the parser reads from a blob
OwnerIDs(blob) ==
    LET p == ParseEnvelope(blob)
    IN  {p.idSecrets[i].ID : i \in 1..Len(p.idSecrets)}

PrevStore == prevNodes[lastNode].store
CurStore == nodes[lastNode].store

\* C3: when an envelope exists at the key and the requester's id is not in
\* its owner table, a PostFile or DeleteFile returns Error and the blob
\* stored at the key stays byte-identical.
C3_NonOwnerWriteRejected ==
    (/\ lastReq.method \in {"PostFile", "DeleteFile"}
     /\ lastReq.key \in DOMAIN PrevStore
     /\ lastReq.from \notin OwnerIDs(PrevStore[lastReq.key]))
    => (/\ lastResp.status = "Error"
        /\ lastReq.key \in DOMAIN CurStore
        /\ CurStore[lastReq.key] = PrevStore[lastReq.key])

\* a non-owner has posted new data to a well-formed envelope with owners
C3_Witness ==
    /\ lastReq.method = "PostFile"
    /\ lastReq.key \in DOMAIN PrevStore
    /\ ParseEnvelope(PrevStore[lastReq.key]).ok
    /\ OwnerIDs(PrevStore[lastReq.key]) # {}
    /\ lastReq.from \notin OwnerIDs(PrevStore[lastReq.key])
    /\ lastReq.data # SubSeq(PrevStore[lastReq.key],
                              ParseEnvelope(PrevStore[lastReq.key]).pos,
                              Len(PrevStore[lastReq.key]))
    /\ lastResp.status = "Error"

\* C4: a GetFile whose from id is not in the owner table of the envelope
\* (zero-owner envelopes and absent keys included) returns Error and the
\* response carries neither a wrapped key nor ciphertext bytes.
C4_UnauthorizedReadRejected ==
    (/\ lastReq.method = "GetFile"
     /\ \/ lastReq.key \notin DOMAIN PrevStore
        \/ lastReq.from \notin OwnerIDs(PrevStore[lastReq.key]))
    => (/\ lastResp.status = "Error"
        /\ lastResp.secret = <<>>
        /\ lastResp.data = <<>>)

\* a GetFile has been served on a zero-owner envelope that holds data
C4_Witness ==
    /\ lastReq.method = "GetFile"
    /\ lastReq.key \in DOMAIN PrevStore
    /\ ParseEnvelope(PrevStore[lastReq.key]).ok
    /\ PrevStore[lastReq.key][1] = 0
    /\ Len(PrevStore[lastReq.key]) > 1
    /\ lastResp.status = "Error"

\* C10: after a successful PostFile on an absent key the stored envelope
\* parses back to the posted owner table and data, and a GetFile by the
\* poster returns the posted secret and the posted data, whatever the
\* length of the posted secret.
C10_CreateRoundTrips ==
    (/\ lastReq.method = "PostFile"
     /\ lastReq.key \notin DOMAIN PrevStore
     /\ lastResp.status = "Success")
    => LET blob == CurStore[lastReq.key]
           p == ParseEnvelope(blob)
           g == GetFileHandler(nodes[lastNode],
                               Request("GetFile", lastReq.key, lastReq.from,
                                       <<>>, <<>>, <<>>, 0)).resp
       IN  /\ p.ok
           /\ blob[1] = 1 + Len(lastReq.sharedWith)
           /\ p.idSecrets = <<[ID |-> lastReq.from, Secret |-> lastReq.secret]>>
                               \o lastReq.sharedWith
           /\ SubSeq(blob, p.pos, Len(blob)) = lastReq.data
           /\ g.status = "Success"
           /\ g.secret = lastReq.secret
           /\ g.data = lastReq.data

(***************************************************************************)
(* Claims about the command-line flows, checked under SpecCli              *)
(***************************************************************************)
IsUserID(id) == \E u \in Users : UserID(u) = id
UserOfID(id) == CHOOSE u \in Users : UserID(u) = id

\* every owner record of the envelope unwraps, with the private key of the
\* user it names, to the session key sKey
WrapsOnly(idSecrets, sKey) ==
    \A i \in 1..Len(idSecrets) :
        /\ IsUserID(idSecrets[i].ID)
        /\ DecryptRSA(UserOfID(idSecrets[i].ID), idSecrets[i].Secret)
             = [ok |-> TRUE, key |-> sKey]

\* the blob is an envelope of plaintext: it parses, all its owner records
\* wrap one session key, and its data is IV || ciphertext of plaintext
\* under that key
EnvelopeOf(blob, plaintext) ==
    LET e == ParseEnvelope(blob)
        data == SubSeq(blob, e.pos, Len(blob))
    IN  /\ e.ok
        /\ Len(e.idSecrets) >= 1
        /\ Len(data) >= BlockSize
        /\ \E s \in 0..255 :
              /\ WrapsOnly(e.idSecrets, SessionKey(s))
              /\ Decrypt(SessionKey(s), SubSeq(data, BlockSize + 1, Len(data)),
                         SubSeq(data, 1, BlockSize)) = plaintext

\* C1: after any sequence of backup, share and sync post_file operations,
\* every stored envelope has owner records that all unwrap to one session
\* key S, and its ciphertext decrypts under S to the plaintext of the last
\* write.
C1_EnvelopeInvariant ==
    \A n \in Nodes : \A p \in Paths :
        fileToKeyIdentifier(p) \in DOMAIN nodes[n].store
          => EnvelopeOf(nodes[n].store[fileToKeyIdentifier(p)], written[p])

\* C2: in every ring, a backup of a file followed at once by a getfile of
\* the same name by the same user yields the plaintext backed up.
C2_BackupGetfile ==
    (/\ prevOp.op = "backup" /\ prevOp.ok
     /\ lastOp.op = "getfile"
     /\ lastOp.user = prevOp.user /\ lastOp.path = prevOp.path)
    => (lastOp.ok /\ lastOp.plain = prevOp.plain)

\* C5: after an owner A has shared x with B, the owner table is the table
\* before the share with the one record (id(B), wrap(pub(B), S)) appended,
\* the count is one greater, the ciphertext is unchanged, and a following
\* getfile by B returns the plaintext stored.
C5_ShareAppendsOwner ==
    (lastOp.op = "share" /\ lastOp.ok)
    => LET key == fileToKeyIdentifier(lastOp.path)
           before == prevNodes[lastNode].store[key]
           after == nodes[lastNode].store[key]
           b == ParseEnvelope(before)
           a == ParseEnvelope(after)
           sKey == DecryptRSA(lastOp.user, FindOwner(b.idSecrets, UserID(lastOp.user)).secret)
           g == GetfileRun(nodes, lastOp.peer, lastOp.path)
       IN  /\ a.ok
           /\ a.idSecrets = Append(b.idSecrets,
                                   [ID |-> UserID(lastOp.peer),
                                    Secret |-> EncryptRSA(lastOp.peer, sKey.key)])
           /\ after[1] = before[1] + 1
           /\ SubSeq(after, a.pos, Len(after)) = SubSeq(before, b.pos, Len(before))
           /\ g.ok
           /\ g.plain = written[lastOp.path]

(***************************************************************************)
(* Claims about the sync client, checked under SpecSync and SpecSync2      *)
(***************************************************************************)
\* the log a fetch from the node that holds it returns
StoredLog(w, u) == GetTransactionLog(w, getNode(TxLogID(u)), u)

\* C6: when delete_file(path) of a client completes for a path whose file
\* has been posted, the envelope at the path's key no longer exists on the
\* responsible node and a GetFile for it returns Error.
C6_DeleteRemovesEnvelope ==
    [][\A c \in Clients :
         (/\ cl[c].pc = "del2"
          /\ cl'[c].pc # "del2"
          /\ written[cl[c].opPath] # NoPlain)
         => (/\ fileToKeyIdentifier(cl[c].opPath) \notin
                  DOMAIN nodes'[getNode(fileToKeyIdentifier(cl[c].opPath))].store
             /\ GetFileHandler(nodes'[getNode(fileToKeyIdentifier(cl[c].opPath))],
                               GetFileRequest(fileToKeyIdentifier(cl[c].opPath),
                                              cl[c].user)).resp.status = "Error")]_vars

\* each process has written x.txt once (and the user has not touched its
\* directory since), and has completed a round begun after both writes
C7_BothSynced ==
    \A c \in Clients :
        /\ cl[c].posts = 1
        /\ ~cl[c].edited
        /\ cl[c].further
        /\ cl[c].pc = "idle"

\* C7: two processes of one user each write x.txt, a with the lower
\* timestamp and b with the higher; once both have completed a further
\* round, both directories hold b's content and the stored log holds the
\* two entries for x.txt, whatever the interleaving of their steps.
C7_ConcurrentWritesConverge ==
    \A a, b \in Clients :
        (C7_BothSynced /\ cl[a].posted < cl[b].posted)
        => (/\ \A c \in Clients :
                  /\ "x.txt" \in DOMAIN cl[c].files
                  /\ cl[c].files["x.txt"] = cl[b].postedData
            /\ StoredLog(nodes, "A").ok
            /\ "x.txt" \in DOMAIN StoredLog(nodes, "A").log
            /\ LET es == StoredLog(nodes, "A").log["x.txt"].Entries
               IN  /\ Len(es) = 2
                   /\ {es[i].Timestamp : i \in 1..Len(es)}
                        = {cl[a].posted, cl[b].posted})

\* C8: a process whose first round (empty old log) fetched a log in which
\* the last entry of x.txt is a Delete did not download x.txt in that round
\* and has no local x.txt after it.
C8_FreshClientHonoursDelete ==
    \A c \in Clients :
        (/\ cl[c].rounds = 1
         /\ cl[c].pc = "idle"
         /\ ~cl[c].edited
         /\ cl[c].fetchOK
         /\ "x.txt" \in DOMAIN cl[c].tl
         /\ LastEntry(cl[c].tl["x.txt"].Entries).Operation = "Delete")
        => (/\ "x.txt" \notin cl[c].got
            /\ "x.txt" \notin DOMAIN cl[c].files)

\* process c is inside a round that is not its first
InLaterRound(c) ==
    /\ cl[c].inSync
    /\ cl[c].pc \in {"walk", "post2", "post3", "del2"}
    /\ cl[c].rounds >= 1

\* C9 (amended): when two consecutive rounds of a process both fetched the
\* log, fetched the same log, and the local files did not change between
\* them, the second round issues no post_file and no delete_file for a path
\* of that log.
C9_NoEntryWhenUnchanged ==
    \A c \in Clients : \A p \in SyncPaths :
        (/\ InLaterRound(c)
         /\ cl[c].priorOK
         /\ cl[c].fetchOK
         /\ cl[c].prior = cl[c].tl
         /\ cl[c].localSame
         /\ p \in DOMAIN cl[c].tl)
        => p \notin cl[c].issued

\* the second of two such rounds has reconciled x.txt, which is in the log
\* and in the directory, and is about to return
C9_Witness ==
    \E c \in Clients :
        /\ InLaterRound(c)
        /\ cl[c].pc = "walk" /\ cl[c].push = <<>> /\ cl[c].rec = {}
        /\ cl[c].priorOK
        /\ cl[c].fetchOK
        /\ cl[c].prior = cl[c].tl
        /\ cl[c].localSame
        /\ cl[c].remoteSame
        /\ "x.txt" \in DOMAIN cl[c].tl
        /\ "x.txt" \in DOMAIN cl[c].files
        /\ cl[c].issued = {}

\* C9 (as stated): for a path two consecutive rounds of a process both see,
\* with the local files and the stored log unchanged between the rounds,
\* the second round issues no post_file and no delete_file for it, also
\* when a log fetch fails.
C9_NoEntryAlsoWhenFetchFails ==
    \A c \in Clients : \A p \in SyncPaths :
        (/\ InLaterRound(c)
         /\ cl[c].localSame
         /\ cl[c].remoteSame
         /\ p \in DOMAIN cl[c].endFiles)
        => p \notin cl[c].issued

\* process c is inside Synchronize
InSynchronize(c) ==
    /\ cl[c].inSync
    /\ cl[c].pc \in {"walk", "post2", "post3", "del2"}

\* C11: while Synchronize runs the watcher is detached (the main loop is
\* one thread of control, so no PostFile or DeleteFile of a watcher event
\* runs beside it); after Synchronize has returned the watcher is attached
\* again; and no file operation made by Synchronize itself is ever queued
\* as a watcher event, so none causes a PostFile or DeleteFile.
C11_WatcherDetachedDuringSync ==
    \A c \in Clients :
        /\ InSynchronize(c) => ~cl[c].watching
        /\ (cl[c].pc = "idle" /\ cl[c].rounds >= 1) => cl[c].watching
        /\ \A i \in 1..Len(cl[c].events) : cl[c].events[i].by # "sync"

\* a round that is not the first has downloaded x.txt into the directory
\* while the watcher was detached
C11_Witness ==
    \E c \in Clients :
        /\ InSynchronize(c)
        /\ cl[c].rounds >= 1
        /\ "x.txt" \in cl[c].got
        /\ "x.txt" \in DOMAIN cl[c].files
        /\ "x.txt" \in DOMAIN cl[c].endFiles
        /\ cl[c].files["x.txt"] # cl[c].endFiles["x.txt"]
        /\ ~cl[c].watching

(***************************************************************************)
(* Claims about handlers running side by side, checked under SpecMu        *)
(***************************************************************************)
\* goroutine t is between its Lock and its Unlock
InSection(t) == srv.th[t].pc \in {"get", "act", "unlock"}

\* the orders in which the requests of the goroutines can be served one
\* after the other
Orders == {o \in [1..Cardinality(Threads) -> Threads] :
              \A i, j \in 1..Cardinality(Threads) : o[i] = o[j] => i = j}

\* the requests served one after the other in order o from node nd: the
\* node they leave and the response of each
RECURSIVE Replay(_, _, _, _)
Replay(nd, o, i, resps) ==
    IF i > Cardinality(Threads) THEN [node |-> nd, resps |-> resps]
    ELSE Let(Handle(nd, srv.th[o[i]].req), LAMBDA h :
           Replay(h.node, o, i + 1, [resps EXCEPT ![o[i]] = h.resp]))

AllDone == \A t \in Threads : srv.th[t].pc = "done"

\* C12: the sections between Lock and Unlock of two handlers never overlap;
\* when all requests are answered the node and the responses are those of
\* serving the requests one after the other in some order; and two
\* successful PostFile requests that each share with another user leave an
\* owner table that holds both users.
C12_HandlersSerialized ==
    /\ \A t, u \in Threads : (t # u /\ InSection(t)) => ~InSection(u)
    /\ AllDone =>
          \E o \in Orders :
              \E rp \in {Replay(srv.start, o, 1,
                                [t \in Threads |-> ErrorResponse])} :
                  /\ rp.node = nodes[Bootstrap]
                  /\ \A t \in Threads : rp.resps[t] = srv.th[t].resp
    /\ (/\ AllDone
        /\ \A t \in Threads :
              /\ srv.th[t].req.method = "PostFile"
              /\ srv.th[t].resp.status = "Success")
       => \A t \in Threads :
              srv.th[t].req.sharedWith[1].ID \in OwnerIDs(nodes[Bootstrap].store[MuKey])

\* two PostFile requests by the owner, one sharing with B and one with C,
\* were in the server at once and both have been answered Success
C12_Witness ==
    /\ AllDone
    /\ srv.overlap
    /\ \A t \in Threads :
          /\ srv.th[t].req.method = "PostFile"
          /\ srv.th[t].resp.status = "Success"
    /\ srv.th["t1"].req.sharedWith # srv.th["t2"].req.sharedWith
    /\ MuKey \in DOMAIN srv.start.store

(***************************************************************************)
(* Further claims about the handlers, checked under SpecSrv                *)
(***************************************************************************)
FileMethods == {"GetFile", "PostFile", "DeleteFile"}
KeyMethods == {"GetPublicKey", "PostPublicKey"}

\* C13: every Success response of GetFile, PostFile, DeleteFile,
\* GetPublicKey and PostPublicKey carries the clock max(server clock before
\* the request, request clock) + 1, and that is the server clock after it.
C13_SuccessCarriesClock ==
    (/\ lastReq.method \in FileMethods \cup KeyMethods
     /\ lastResp.status = "Success")
    => (/\ lastResp.clock = Max(prevNodes[lastNode].clock, lastReq.clock) + 1
        /\ nodes[lastNode].clock = lastResp.clock)

\* the ids of an owner table are pairwise distinct
DistinctIDs(idSecrets) ==
    \A i, j \in 1..Len(idSecrets) : idSecrets[i].ID = idSecrets[j].ID => i = j

\* C14: a successful PostFile on an absent key, or on an envelope whose
\* owner ids are pairwise distinct, stores an envelope whose owner ids are
\* pairwise distinct.
C14_OwnerIDsDistinct ==
    (/\ lastReq.method = "PostFile"
     /\ lastResp.status = "Success"
     /\ lastReq.key \in DOMAIN PrevStore
          => DistinctIDs(ParseEnvelope(PrevStore[lastReq.key]).idSecrets)
     /\ ParseEnvelope(CurStore[lastReq.key]).ok)
    => DistinctIDs(ParseEnvelope(CurStore[lastReq.key]).idSecrets)

\* the blob is shorter than its count byte says
Truncated(blob) ==
    \/ Len(blob) < 1
    \/ Len(blob) < 1 + blob[1] * (IDLen + sessionKeyLen)

\* C16: on a stored blob shorter than 1 + owner_count * (20 + 256) bytes,
\* GetFile, PostFile and DeleteFile return Error with no secret and no
\* data, and the blob stays as it is.
C16_TruncatedEnvelopeRejected ==
    (/\ lastReq.method \in FileMethods
     /\ lastReq.key \in DOMAIN PrevStore
     /\ Truncated(PrevStore[lastReq.key]))
    => (/\ lastResp.status = "Error"
        /\ lastResp.secret = <<>>
        /\ lastResp.data = <<>>
        /\ lastReq.key \in DOMAIN CurStore
        /\ CurStore[lastReq.key] = PrevStore[lastReq.key])

\* the owner of the one full record of an envelope whose count byte is 2
\* has asked for the file
C16_Witness ==
    /\ lastReq.method = "GetFile"
    /\ lastReq.key \in DOMAIN PrevStore
    /\ PrevStore[lastReq.key][1] = 2
    /\ Len(PrevStore[lastReq.key]) > 1 + IDLen + sessionKeyLen
    /\ Truncated(PrevStore[lastReq.key])
    /\ lastReq.from = SubSeq(PrevStore[lastReq.key], 2, 1 + IDLen)
    /\ lastResp.status = "Error"

C18_FailedUploadAbandoned ==
    [][\A c \in Clients :
         (/\ cl[c].pc = "post3"
          /\ cl'[c].pc # "post3"
          /\ cl[c].opStatus = "Error")
         => StoredLogBlob(nodes', cl[c].user) = StoredLogBlob(nodes, cl[c].user)]_vars

(***************************************************************************)
(* Where the client sends its requests, checked under SpecCli              *)
(***************************************************************************)
\* C19: every GetFile or PostFile request a client command sends for a key
\* goes to the node that GetSuccessor answered for that key, and to the
\* bootstrap peer only when the bootstrap peer is that node.
C19_RequestsGoToSuccessor ==
    lastReq.method \in {"GetFile", "PostFile"}
      => lastNode = getNode(lastReq.key)

(***************************************************************************)
(* The interrupt of a sync process, checked under SpecSyncFair             *)
(***************************************************************************)
\* the process stops only in the select of the main loop, never inside a
\* Synchronize, PostFile or DeleteFile call
StopsBetweenCalls ==
    [][\A c \in Clients : (cl[c].pc # "off" /\ cl'[c].pc = "off")
                              => cl[c].pc = "idle"]_vars

\* C20: once an interrupt has been delivered to a sync process, the
\* process eventually exits with code 0 (the call in progress returns
\* first, and the select is fair among its ready events).
C20_InterruptExitsClean ==
    \A c \in Clients :
        (cl[c].pc # "off" /\ cl[c].intr) ~> (cl[c].pc = "off" /\ cl[c].exit = 0)

(***************************************************************************)
(* The decisions of a Synchronize round, checked under SpecRec             *)
(***************************************************************************)
\* the largest timestamp of a list of entries
MaxTimestamp(entries) ==
    CHOOSE t \in {entries[i].Timestamp : i \in DOMAIN entries} :
        \A i \in DOMAIN entries : entries[i].Timestamp <= t

\* among the entries with the largest timestamp, the one latest in the list
LatestOfMax(entries) ==
    entries[CHOOSE i \in DOMAIN entries :
              /\ entries[i].Timestamp = MaxTimestamp(entries)
              /\ \A j \in DOMAIN entries :
                    entries[j].Timestamp = MaxTimestamp(entries) => j <= i]

\* the action for path k as the two last-entry timestamps fix it
ActionByTimestamps(old, tl, k) ==
    IF k \notin DOMAIN old THEN "get"
    ELSE IF MaxTimestamp(old[k].Entries) < MaxTimestamp(tl[k].Entries)
      THEN IF LatestOfMax(tl[k].Entries).Operation = "Delete"
             THEN "remove" ELSE "get"
    ELSE IF MaxTimestamp(old[k].Entries) = MaxTimestamp(tl[k].Entries)
      THEN "none"
    ELSE IF LatestOfMax(old[k].Entries).Operation = "Delete"
      THEN "delete" ELSE "post"

C22_LastEntryLatestOnTies ==
    \A c \in Clients :
        InSynchronize(c)
          => \A k \in DOMAIN cl[c].tl :
                /\ LastEntry(cl[c].tl[k].Entries) = LatestOfMax(cl[c].tl[k].Entries)
                /\ k \in DOMAIN cl[c].prior
                     => LastEntry(cl[c].prior[k].Entries)
                          = LatestOfMax(cl[c].prior[k].Entries)

\* the fetched log lists an Update and then a Delete with one timestamp,
\* newer than the prior log: the round is to remove the local file
C22_Witness ==
    \E c \in Clients : \E k \in DOMAIN cl[c].tl :
        /\ cl[c].pc = "walk"
        /\ k \in DOMAIN cl[c].prior
        /\ Len(cl[c].tl[k].Entries) = 2
        /\ cl[c].tl[k].Entries[1].Timestamp = cl[c].tl[k].Entries[2].Timestamp
        /\ cl[c].tl[k].Entries[1].Operation = "Update"
        /\ cl[c].tl[k].Entries[2].Operation = "Delete"
        /\ [kind |-> "remove", path |-> k] \in cl[c].rec

C24_OneEntryAppended ==
    [][\A c \in Clients :
         (/\ cl[c].pc \in {"post3", "del2"}
          /\ cl'[c].pc \notin {"post3", "del2"}
          /\ cl[c].opFetchOK
          /\ PutTransactionLog(nodes, cl[c].clock, cl[c].user,
                               cl[c].opLog).resp.status = "Success")
         => LET f == cl[c].opFetched
                p == cl[c].opPath
                after == StoredLog(nodes', cl[c].user)
                entry == [Operation |-> IF cl[c].pc = "post3"
                                          THEN "Update" ELSE "Delete",
                          ClientID |-> UserID(cl[c].user),
                          Timestamp |-> cl[c].clock]
            IN  /\ after.ok
                /\ DOMAIN after.log = DOMAIN f \cup {p}
                /\ \A q \in DOMAIN f \ {p} : after.log[q] = f[q]
                /\ after.log[p].ResourceName = p
                /\ after.log[p].ResourceID = fileToKeyIdentifier(p)
                /\ after.log[p].Entries =
                     (IF p \in DOMAIN f THEN f[p].Entries ELSE <<>>) \o <<entry>>]_vars

\* a delete_file has ended after it fetched a log that holds the path and
\* the log stored has one entry more for it
C24_Witness ==
    \E c \in Clients :
        /\ lastOp = [op |-> "delete_file", client |-> c, path |-> "x.txt"]
        /\ cl[c].pc = "walk"
        /\ StoredLog(nodes, cl[c].user).ok
        /\ "x.txt" \in DOMAIN StoredLog(nodes, cl[c].user).log
        /\ "x.txt" \in DOMAIN cl[c].tl
        /\ Len(StoredLog(nodes, cl[c].user).log["x.txt"].Entries)
             = Len(cl[c].tl["x.txt"].Entries) + 1

(***************************************************************************)
(* The owner count byte, checked under SpecCount                           *)
(***************************************************************************)
\* the number of owner records the last PostFile wrote after the count byte
RecordsWritten ==
    IF lastReq.key \in DOMAIN PrevStore
      THEN Len(ParseEnvelope(PrevStore[lastReq.key]).idSecrets)
             + Len(lastReq.sharedWith)
      ELSE 1 + Len(lastReq.sharedWith)

\* C15: after a successful PostFile the count byte of the stored envelope
\* equals the number of owner records written after it (so at most 255):
\* no PostFile stores a count byte that wrapped around modulo 256.
C15_CountByteMatchesRecords ==
    (/\ lastReq.method = "PostFile"
     /\ lastResp.status = "Success")
    => (/\ CurStore[lastReq.key][1] = RecordsWritten
        /\ RecordsWritten <= ByteMax)

\* C25: a PostFile by an owner on a stored envelope writes the count byte
\* |existing| + |shared_with|, the existing owner records in their order,
\* the shared_with records of the request, and the request data; the
\* secret of the request is not used.
C25_UpdateKeepsOwners ==
    (/\ lastReq.method = "PostFile"
     /\ lastReq.key \in DOMAIN PrevStore
     /\ ParseEnvelope(PrevStore[lastReq.key]).ok
     /\ FindOwner(ParseEnvelope(PrevStore[lastReq.key]).idSecrets,
                  lastReq.from).found)
    => LET existing == ParseEnvelope(PrevStore[lastReq.key]).idSecrets
       IN  /\ lastResp.status = "Success"
           /\ CurStore[lastReq.key] =
                <<Len(existing) + Len(lastReq.sharedWith)>>
                  \o OwnerBytes(existing)
                  \o OwnerBytes(lastReq.sharedWith)
                  \o lastReq.data

\* C26: when the requester's id stands in more than one record of the
\* owner table, a successful GetFile returns as secret the wrapped key of
\* the first of these records.
C26_FirstMatchingRecord ==
    (/\ lastReq.method = "GetFile"
     /\ lastResp.status = "Success")
    => LET idSecrets == ParseEnvelope(PrevStore[lastReq.key]).idSecrets
           first == CHOOSE i \in DOMAIN idSecrets :
                      /\ idSecrets[i].ID = lastReq.from
                      /\ \A j \in 1..(i - 1) : idSecrets[j].ID # lastReq.from
       IN  lastResp.secret = idSecrets[first].Secret

(***************************************************************************)
(* The transaction log one process keeps, checked under SpecSync           *)
(***************************************************************************)
\* every entity of the log has an entry
HasEntries(log) == \A q \in DOMAIN log : Len(log[q].Entries) >= 1

\* C27: every log that post_file or delete_file PUTs has at least one
\* entry in each entity, so the logs Synchronize fetches and keeps have a
\* first entry to read.
C27_EntitiesHaveEntries ==
    \A c \in Clients :
        /\ cl[c].pc \in {"post3", "del2"} => HasEntries(cl[c].opLog)
        /\ HasEntries(StoredLog(nodes, cl[c].user).log)
        /\ HasEntries(cl[c].tl)
        /\ HasEntries(cl[c].prior)

\* a round reads a log it has fetched and the log of the round before
C27_Witness ==
    \E c \in Clients :
        /\ cl[c].pc = "walk"
        /\ cl[c].fetchOK
        /\ DOMAIN cl[c].tl # {}
        /\ DOMAIN cl[c].prior # {}

\* C28: the timestamps of the entries one process stores in the log, by
\* post_file and delete_file in any order and over all paths, are strictly
\* increasing in the order it stores them (stamp is the timestamp of the
\* entry it stored last).
C28_TimestampsIncrease ==
    [][\A c \in Clients :
         (cl[c].pc \in {"post3", "del2"} /\ cl'[c].pc \notin {"post3", "del2"})
         => /\ cl'[c].stamp > cl[c].stamp
            /\ cl'[c].stamp = cl[c].opLog[cl[c].opPath].Entries[
                                 Len(cl[c].opLog[cl[c].opPath].Entries)].Timestamp]_vars

\* a process that has stored an Update entry has stored a Delete entry
C28_Witness ==
    \E c \in Clients :
        /\ cl[c].posts >= 1
        /\ lastOp = [op |-> "delete_file", client |-> c, path |-> "x.txt"]
        /\ cl[c].stamp > 0

\* the entries a are the first entries of b
IsPrefix(a, b) == Len(a) <= Len(b) /\ SubSeq(b, 1, Len(a)) = a

\* C29: with one process, the entry lists of the stored log only grow:
\* after every post_file or delete_file the entries stored before for a
\* path are a prefix of the entries stored for it, also when the log fetch
\* of the operation failed.
C29_StoredEntriesOnlyGrow ==
    [][\A c \in Clients :
         (cl[c].pc \in {"post3", "del2"} /\ cl'[c].pc \notin {"post3", "del2"})
         => \A q \in DOMAIN StoredLog(nodes, cl[c].user).log :
               /\ q \in DOMAIN StoredLog(nodes', cl[c].user).log
               /\ IsPrefix(StoredLog(nodes, cl[c].user).log[q].Entries,
                           StoredLog(nodes', cl[c].user).log[q].Entries)]_vars

\* C30: with one process, after a PutTransactionLog that was answered
\* Success the log GetTransactionLog returns is the log that was PUT, for
\* the first PUT, which makes the envelope of the log, as for later ones,
\* and in rings where the bootstrap peer is not the node of the log id.
C30_LogReadBackAsPut ==
    [][\A c \in Clients :
         (/\ cl[c].pc \in {"post3", "del2"}
          /\ cl'[c].pc \notin {"post3", "del2"}
          /\ PutTransactionLog(nodes, cl[c].clock, cl[c].user,
                               cl[c].opLog).resp.status = "Success")
         => /\ GetTransactionLog(nodes', Bootstrap, cl[c].user).ok
            /\ GetTransactionLog(nodes', Bootstrap, cl[c].user).log = cl[c].opLog]_vars

(***************************************************************************)
(* Access to a key by an id outside its owner table, checked under SpecSrv *)
(***************************************************************************)
\* C31: when a key holds an envelope and the requester's id is not in its
\* owner table, no request of any method changes the stored blob or
\* returns a byte of it.
C31_OwnerTableGuardsKey ==
    (/\ lastReq.method \in {"GetFile", "PostFile", "DeleteFile",
                            "GetPublicKey", "PostPublicKey"}
     /\ lastReq.key \in DOMAIN PrevStore
     /\ ParseEnvelope(PrevStore[lastReq.key]).ok
     /\ ~FindOwner(ParseEnvelope(PrevStore[lastReq.key]).idSecrets,
                   lastReq.from).found)
    => (/\ lastReq.key \in DOMAIN CurStore
        /\ CurStore[lastReq.key] = PrevStore[lastReq.key]
        /\ lastResp.data = <<>>
        /\ lastResp.secret = <<>>)

(***************************************************************************)
(* A share beside an owner's update, checked under SpecShare               *)
(***************************************************************************)
\* the bytes of a blob after its owner table
DataOf(blob) == SubSeq(blob, ParseEnvelope(blob).pos, Len(blob))

\* C32: a share never changes the ciphertext stored for the resource: the
\* data stored after the PostFile of the share is the data stored right
\* before it, also when an owner has posted new content after the share's
\* GetFile.
C32_ShareKeepsCiphertext ==
    [][(lastOp.op = "share1" /\ lastOp'.op = "share")
       => DataOf(nodes'[getNode(ShareKey)].store[ShareKey])
            = DataOf(nodes[getNode(ShareKey)].store[ShareKey])]_vars

\* C33: in sync mode every local write to a file of the directory is
\* eventually followed by a post_file of that path with the content written,
\* also when the write is made while the watcher is detached during a
\* Synchronize and the path is already in the remote log (the process keeps
\* running and every round trip is answered; a file removed after the write
\* has nothing left to post)
C33_WriteEventuallyPosted ==
    \A c \in Clients : \A p \in SyncPaths :
        (cl[c].edited /\ p \in DOMAIN cl[c].files /\ cl[c].files[p] = ShortData)
          ~> (cl[c].postedData = ShortData \/ p \notin DOMAIN cl[c].files)

\* C34: when a download issued by Synchronize for a path fails in one round
\* and the later round trips succeed, a later round of the same process
\* issues a download of that path again
C34_FailedDownloadRetried ==
    \A c \in Clients : \A p \in Paths :
        <>(p \in cl[c].failed) => <>(p \in cl[c].failed /\ p \in cl[c].got)

====
